---- MODULE Spec2Model ----
(***************************************************************************)
(* Audio2Score: the MIDI viewer's playback engine (MIDIViewer.tsx) and the *)
(* playback coordinator (PlaybackContext.tsx).                             *)
(*                                                                         *)
(* Time.  One model time unit is 50 ms, for wall-clock time (Date.now())   *)
(* and for score time alike, so triggerWindow = 0.05 s is 1 unit and the   *)
(* 0.1 s "just started" span is 2 units.  The speed prop is 1 or 2.        *)
(* startTimeRef = Date.now() - currentTime*1000/speed is kept multiplied   *)
(* by SpeedScale, so that the division by speed stays exact.               *)
(*                                                                         *)
(* React.  A handler reads the state of the latest render; a state setter  *)
(* of an unmounted component has no effect; refs are plain mutable cells.  *)
(* Two closures are older than the latest render and are modelled as       *)
(* such: the animate loop re-schedules the animate of the render in which  *)
(* play was pressed (its notes, speed and duration), and the PanResponder  *)
(* is created once, in the first render.                                   *)
(***************************************************************************)
EXTENDS Integers, Sequences, FiniteSets, TLC

VARIABLES now, viewer, playersRef, currentPlayingRef, op, calls, session, run,
          file, buf, parsed, am, tasks, splash

\* the variables of the viewers and the registry
viewVars == <<now, viewer, playersRef, currentPlayingRef, op, calls, session, run>>

\* the variables of the MIDI parser and of the AudioManager, which no step
\* of a viewer or of the registry changes
parserVars == <<file, buf, parsed>>

audioVars == <<am, tasks>>

\* the splash screen
splashVars == <<splash>>

libVars == <<parserVars, audioVars, splashVars>>

vars == <<viewVars, libVars>>

\* ------------------------------------------------------------------ bounds
MaxNow == 4
MaxSeek == 3
CoordMaxNow == 1

\* --------------------------------------------------------------- constants
Players == {"A", "B", "C"}
Engine == "A"
None == "none"
Speeds == {1, 2}
\* the autoPlay prop the screens pass
AutoPlayProps == {FALSE}
SpeedScale == 2
TriggerWindow == 1
JustStartedSpan == 2

\* the width of the window in which a note is just started, 0.15 s
WindowSpan == TriggerWindow + JustStartedSpan

Note(n, s, d) == [note |-> n, startTime |-> s, duration |-> d]

\* The scores a viewer can be given: an empty one, a three-note one with a
\* repeated note, and what the parser returns for a file whose only note is
\* opened and closed at tick 0 (a note of duration 0, total duration 0).
Scores ==
  << [notes |-> <<>>, duration |-> 0],
     [notes |-> << Note("C4", 0, 1), Note("E4", 2, 1), Note("E4", 2, 1) >>,
      duration |-> 3],
     [notes |-> << Note("C4", 0, 0) >>, duration |-> 0],
     [notes |-> << Note("C4", 0, 1) >>, duration |-> 1] >>

\* a load ends with one of the scores, or fails (the parser throws)
LoadFails == 0 - 1
EngineLoads == {LoadFails, 1, 2, 3}
CoordLoads == {4}
\* the viewers that are given a score in the registry's specification (the
\* third one registers and is stopped, and has nothing to play)
CoordScored == {"A", "B"}

\* ----------------------------------------------------------------- helpers
Call(c, who, arg) == [call |-> c, who |-> who, arg |-> arg]

Ret(v, out) == [v |-> v, out |-> out]

RECURSIVE SeqOfSet(_)
SeqOfSet(S) == IF S = {} THEN <<>>
               ELSE LET m == CHOOSE x \in S : \A y \in S : x <= y
                    IN <<m>> \o SeqOfSet(S \ {m})

\* noteId = `${note.note}-${note.startTime}-${index}` (index is 0-based in
\* the source, 1-based here)
NoteIdOfNameAndTime(ns, i) == <<ns[i].note, ns[i].startTime, 0>>

\* `${note.note}-${note.startTime}-${index}`
NoteId(ns, i) == <<ns[i].note, ns[i].startTime, i>>

\* (mutant) PassedNotes that also marks the notes starting at t
PassedNotesInclusive(ns, t) == { NoteId(ns, i) : i \in { j \in 1..Len(ns) : ns[j].startTime <= t } }

\* the notes marked as played when the transport is placed at time t
PassedNotes(ns, t) == { NoteId(ns, i) : i \in { j \in 1..Len(ns) : ns[j].startTime < t } }

\* requestAnimationFrame returns an id never returned before; the only use
\* of ids is the comparison of animationRef.current with the pending ones
FreshFrameId(v) ==
  CHOOSE k \in 1..(Cardinality(v.frames) + 2) :
     /\ k # v.animationRef
     /\ \A f \in v.frames : f.id # k
     /\ \A j \in 1..(k - 1) : j = v.animationRef \/ \E f \in v.frames : f.id = j

cancelAnimationFrame(v, id) == [v EXCEPT !.frames = { f \in v.frames : f.id # id }]

\* the state of a component instance before its first effect
FreshViewer(auto, sp) ==
  [ mounted |-> TRUE, autoPlay |-> auto, speed |-> sp,
    isPlaying |-> FALSE, currentTime |-> 0, activeNotes |-> <<>>,
    notes |-> <<>>, isLoading |-> FALSE, duration |-> 0,
    animationRef |-> 0, startTimeRef |-> 0,
    playedNotesRef |-> {}, frames |-> {},
    panClosure |-> [notes |-> <<>>, speed |-> sp, duration |-> 0, isPlaying |-> FALSE],
    render |-> [notes |-> <<>>, speed |-> sp, duration |-> 0, isPlaying |-> FALSE,
                currentTime |-> 0] ]

NoViewer == [FreshViewer(FALSE, 1) EXCEPT !.mounted = FALSE]

NoSession == [t |-> 0 - 1, started |-> FALSE, triggered |-> {}]

\* history of a viewer that is not in a run of play; heard are the notes
\* (indices) handed to playNote since the last seek, stop, load or mount.
\* clean: the run began with play at currentTime 0 and since then only
\* frames less than 0.15 s of transport time apart have run; once and
\* again: the notes handed to playNote in that run, and those handed to it
\* a second time; ended: the run has reached the end of the score
NoRun == [at |-> 0 - 1, wall |-> 0, set |-> 0, since |-> FALSE, heard |-> {},
          clean |-> FALSE, once |-> {}, again |-> {}, ended |-> FALSE]

\* useState setters: no effect once the component is unmounted
setIsPlaying(v, b) == IF v.mounted THEN [v EXCEPT !.isPlaying = b] ELSE v
setCurrentTime(v, t) == IF v.mounted THEN [v EXCEPT !.currentTime = t] ELSE v
setActiveNotes(v, a) == IF v.mounted THEN [v EXCEPT !.activeNotes = a] ELSE v
\* isDragging is written and never read: setIsDragging leaves all that the
\* component's behaviour depends on unchanged
setIsDragging(v, b) == v
setIsLoading(v, b) == IF v.mounted THEN [v EXCEPT !.isLoading = b] ELSE v
setNotes(v, ns) == IF v.mounted THEN [v EXCEPT !.notes = ns] ELSE v
setDuration(v, d) == IF v.mounted THEN [v EXCEPT !.duration = d] ELSE v

\* the render a closure was made in: what it sees of the props and state
Closure(v) == [notes |-> v.notes, speed |-> v.speed, duration |-> v.duration,
               isPlaying |-> v.isPlaying]

\* what the handlers of a render of the state of v see (v.render is the
\* render the buttons of the screen were made in)
Rendered(v) == [notes |-> v.notes, speed |-> v.speed, duration |-> v.duration,
                isPlaying |-> v.isPlaying, currentTime |-> v.currentTime]

\* ------------------------------------------------- MIDIViewer: the handlers
\* Each handler maps the component v of player p to [v |-> the component
\* afterwards, out |-> the calls it made, in order].

\* (mutant) handleStop that leaves the frame callback pending
handleStopKeepsFrame(p, v) ==
  LET v1 == setActiveNotes(setCurrentTime(setIsPlaying(v, FALSE), 0), <<>>)
  IN Ret([v1 EXCEPT !.playedNotesRef = {}], <<Call("stopAll", p, 0)>>)

handleStop(p, v) ==
  LET v1 == setActiveNotes(setCurrentTime(setIsPlaying(v, FALSE), 0), <<>>)
      v2 == IF v1.animationRef # 0 THEN cancelAnimationFrame(v1, v1.animationRef) ELSE v1
  IN Ret([v2 EXCEPT !.playedNotesRef = {}],
         (IF v.animationRef # 0 THEN <<Call("cancelAnimationFrame", p, v.animationRef)>> ELSE <<>>)
           \o <<Call("stopAll", p, 0)>>)

\* (mutant) adjustedTime computed with the speed of the latest render
AdjustedTimeLatestSpeed(v, cl, t) == ((SpeedScale * t - v.startTimeRef) * v.speed) \div SpeedScale

\* adjustedTime of animate, at wall-clock time t, for the closure's speed
AdjustedTime(v, cl, t) == ((SpeedScale * t - v.startTimeRef) * cl.speed) \div SpeedScale

\* (mutant) justStarted without the window before the start of the note
JustStartedAtStart(n, at) == at >= n.startTime /\ at < n.startTime + TriggerWindow

JustStarted(n, at) == at >= n.startTime - TriggerWindow /\ at < n.startTime + JustStartedSpan

IsActive(n, at) == at >= n.startTime - TriggerWindow /\ at <= n.startTime + n.duration + TriggerWindow

\* the indices of the notes animate hands to AudioManager.playNote at time at
\* (the forEach marks a note before it looks at the next one)
ToTrigger(v, cl, at) ==
  { i \in 1..Len(cl.notes) :
      /\ JustStarted(cl.notes[i], at)
      /\ NoteId(cl.notes, i) \notin v.playedNotesRef
      /\ \A j \in 1..(i - 1) :
            ~(JustStarted(cl.notes[j], at) /\ NoteId(cl.notes, j) = NoteId(cl.notes, i)) }

PlayedEnough(cl, at) == at >= cl.duration /\ cl.duration > 0

\* one run of animate, as the frame callback of closure cl or called from
\* handlePlayPause
animate(p, v, cl, t) ==
  LET at   == AdjustedTime(v, cl, t)
      trig == ToTrigger(v, cl, at)
      act  == SelectSeq(cl.notes, LAMBDA n : IsActive(n, at))
      v1   == setActiveNotes(setCurrentTime(v, at), [k \in 1..Len(act) |-> act[k].note])
      v2   == [v1 EXCEPT !.playedNotesRef = @ \cup { NoteId(cl.notes, i) : i \in trig }]
      tout == [k \in 1..Cardinality(trig) |-> Call("playNote", p, SeqOfSet(trig)[k])]
  IN IF PlayedEnough(cl, at)
     THEN LET s == handleStop(p, v2)
          IN Ret(s.v, tout \o s.out \o <<Call("onPlaybackEnd", p, 0)>>)
     ELSE LET id == FreshFrameId(v2)
          IN Ret([v2 EXCEPT !.animationRef = id,
                            !.frames = @ \cup {[id |-> id, cl |-> cl]}],
                 tout \o <<Call("requestAnimationFrame", p, id)>>)

\* (mutant) handlePlayPause without the check for an empty score
handlePlayPauseUnguarded(p, v, t) ==
  IF v.isPlaying
  THEN LET v1 == setIsPlaying(v, FALSE)
       IN IF v1.animationRef # 0
          THEN Ret(cancelAnimationFrame(v1, v1.animationRef),
                   <<Call("cancelAnimationFrame", p, v1.animationRef)>>)
          ELSE Ret(v1, <<>>)
  ELSE LET v1 == setIsPlaying(v, TRUE)
           v2 == [v1 EXCEPT !.startTimeRef = SpeedScale * t - (SpeedScale \div v.speed) * v.currentTime,
                            !.playedNotesRef = PassedNotes(v.notes, v.currentTime)]
       IN animate(p, v2, Closure(v), t)

\* handlePlayPause of the render cl: notes, isPlaying, currentTime and speed
\* are those the render saw, the refs are the component's
handlePlayPauseOf(p, v, cl, t) ==
  IF Len(cl.notes) = 0
  THEN Ret(v, <<Call("Alert", p, 0)>>)
  ELSE IF cl.isPlaying
  THEN LET v1 == setIsPlaying(v, FALSE)
       IN IF v1.animationRef # 0
          THEN Ret(cancelAnimationFrame(v1, v1.animationRef),
                   <<Call("cancelAnimationFrame", p, v1.animationRef)>>)
          ELSE Ret(v1, <<>>)
  ELSE LET v1 == setIsPlaying(v, TRUE)
           v2 == [v1 EXCEPT !.startTimeRef = SpeedScale * t - (SpeedScale \div cl.speed) * cl.currentTime,
                            !.playedNotesRef = PassedNotes(cl.notes, cl.currentTime)]
       IN animate(p, v2, [notes |-> cl.notes, speed |-> cl.speed, duration |-> cl.duration,
                          isPlaying |-> cl.isPlaying], t)

\* handlePlayPause of the render of the state of v
handlePlayPause(p, v, t) == handlePlayPauseOf(p, v, Rendered(v), t)

handleSeek(p, v, time) ==
  LET s  == IF v.isPlaying THEN handleStop(p, v) ELSE Ret(v, <<>>)
      v1 == setCurrentTime(s.v, time)
  IN Ret([v1 EXCEPT !.playedNotesRef = PassedNotes(v.notes, time)], s.out)

\* handleProgressBarPress of the render cl, pressed at the fraction pct of
\* the bar
handleProgressBarPress(p, v, cl, pct, t) ==
  IF cl.duration = 0
  THEN Ret(v, <<>>)
  ELSE LET newTime == pct * cl.duration
           v1 == setCurrentTime(v, newTime)
           v2 == [v1 EXCEPT !.playedNotesRef = PassedNotes(cl.notes, newTime)]
       IN IF cl.isPlaying
          THEN Ret([v2 EXCEPT !.startTimeRef = SpeedScale * t - (SpeedScale \div cl.speed) * newTime], <<>>)
          ELSE Ret(v2, <<>>)

\* progressBarPanResponder: created by useRef(PanResponder.create(...)) in
\* the first render, so its handlers are those of v.panClosure
onPanResponderGrant(p, v, pct, t) ==
  LET v1 == setIsDragging(v, TRUE)
      v2 == IF v.panClosure.isPlaying THEN setIsPlaying(v1, FALSE) ELSE v1
      v3 == IF v.panClosure.isPlaying /\ v2.animationRef # 0
            THEN cancelAnimationFrame(v2, v2.animationRef) ELSE v2
      s  == handleProgressBarPress(p, v3, v.panClosure, pct, t)
  IN Ret(s.v,
         (IF v.panClosure.isPlaying /\ v2.animationRef # 0
          THEN <<Call("cancelAnimationFrame", p, v2.animationRef)>> ELSE <<>>) \o s.out)

onPanResponderMove(p, v, pct, t) == handleProgressBarPress(p, v, v.panClosure, pct, t)

onPanResponderRelease(p, v) == Ret(setIsDragging(v, FALSE), <<>>)

\* the effect [autoPlay, notes], run after the render that has new notes
autoPlayEffect(p, v, t) ==
  IF v.autoPlay /\ Len(v.notes) > 0 /\ ~v.isPlaying
  THEN handlePlayPause(p, v, t)
  ELSE Ret(v, <<>>)

\* loadMIDI, whose await gives Scores[k] or throws, and the effects of the
\* render that follows.  Before the await it only sets isLoading, which
\* disables the buttons until the finally block clears it: the load is
\* taken in one step, at the time it completes.
loadMIDI(p, v, k, t) ==
  LET v0 == setIsLoading(v, TRUE)
  IN IF k = LoadFails
     THEN Ret(setIsLoading(v0, FALSE), <<Call("Alert", p, 0)>>)
     ELSE LET v1 == setCurrentTime(setDuration(setNotes(v0, Scores[k].notes), Scores[k].duration), 0)
              v2 == setIsLoading(v1, FALSE)
              e  == IF v.mounted THEN autoPlayEffect(p, v2, t) ELSE Ret(v2, <<>>)
          IN Ret(e.v, <<Call("onLoadComplete", p, k)>> \o e.out)

\* --------------------------------------------- PlaybackContext: the registry
\* playersRef is the Map in insertion order; the callback stored for a
\* viewer is its handleStop.

InRegistry(reg, id) == \E i \in 1..Len(reg) : reg[i] = id

registerPlayer(reg, id) == IF InRegistry(reg, id) THEN reg ELSE Append(reg, id)

unregisterPlayerKeepsEntry(reg, id) == reg

unregisterPlayer(reg, id) == SelectSeq(reg, LAMBDA x : x # id)

\* stopCallback() of the entry id: the handleStop of a viewer, or for an
\* id of bad a callback that throws
stopCallback(id, v, bad) ==
  IF id \in bad THEN [v |-> v, out |-> <<>>, err |-> TRUE]
  ELSE LET s == handleStop(id, v) IN [v |-> s.v, out |-> s.out, err |-> FALSE]

tryStopCallbackRethrows(id, r) == r

\* try { stopCallback() } catch (error) { console.error(...) }
tryStopCallback(id, r) ==
  IF r.err
  THEN [r EXCEPT !.err = FALSE, !.out = @ \o <<Call("console.error", id, 0)>>]
  ELSE r

\* playersRef.current.forEach of notifyPlaybackStart, over the entries
\* reg[i..], on the viewers vs; err: an error has left the loop
RECURSIVE StopOthers(_, _, _, _, _)
StopOthers(reg, i, playerId, vs, bad) ==
  IF i > Len(reg) THEN [v |-> vs, out |-> <<>>, err |-> FALSE]
  ELSE IF reg[i] # playerId
  THEN LET s    == tryStopCallback(reg[i], stopCallback(reg[i], vs[reg[i]], bad))
           ws   == [vs EXCEPT ![reg[i]] = s.v]
           out  == <<Call("stopCallback", reg[i], 0)>> \o s.out
       IN IF s.err THEN [v |-> ws, out |-> out, err |-> TRUE]
          ELSE LET rest == StopOthers(reg, i + 1, playerId, ws, bad)
               IN [v |-> rest.v, out |-> out \o rest.out, err |-> rest.err]
  ELSE StopOthers(reg, i + 1, playerId, vs, bad)

\* (mutant) notifyPlaybackStart that stops nobody
notifyPlaybackStartStopsNone(reg, playerId, vs, bad, cur) ==
  [v |-> vs,
   out |-> <<Call("stopAll", "AudioManager", 0), Call("setCurrentPlaying", playerId, 0)>>,
   cur |-> playerId, err |-> FALSE]

\* (mutant) notifyPlaybackStart that records the current player first
notifyPlaybackStartRecordsFirst(reg, playerId, vs, bad, cur) ==
  LET s == StopOthers(reg, 1, playerId, vs, bad)
  IN [v |-> s.v,
      out |-> <<Call("setCurrentPlaying", playerId, 0)>> \o s.out \o <<Call("stopAll", "AudioManager", 0)>>,
      cur |-> playerId, err |-> FALSE]

\* [v |-> the viewers, out |-> the calls, cur |-> currentPlayingRef, err |->
\* whether it threw] after notifyPlaybackStart(playerId), with cur the
\* current player before and bad the ids whose callbacks throw
notifyPlaybackStart(reg, playerId, vs, bad, cur) ==
  LET s == StopOthers(reg, 1, playerId, vs, bad)
  IN IF s.err THEN [v |-> s.v, out |-> s.out, cur |-> cur, err |-> TRUE]
     ELSE [v |-> s.v,
           out |-> s.out \o <<Call("stopAll", "AudioManager", 0), Call("setCurrentPlaying", playerId, 0)>>,
           cur |-> playerId, err |-> FALSE]

\* the utilities before any use
NoFile == [tuning |-> <<0, 0>>, tracks |-> <<>>, magic |-> <<>>, cut |-> 0 - 1]

NotParsed == [ok |-> FALSE, error |-> "not parsed"]

NoAudioManager ==
  [ ver |-> "AudioManager.ts", isWeb |-> FALSE, hasApi |-> FALSE,
    isInitialized |-> FALSE, initProgress |-> 0,
    audioContext |-> 0, suspended |-> FALSE, gainNode |-> FALSE,
    resources |-> 0, contexts |-> 0, loads |-> 0, sources |-> 0 ]

\* ------------------------------------------------------------------- state
\* now: Date.now().  viewer[p]: the MIDIViewer instance of player p (React
\* state, props, refs, the pending animation frames).  playersRef,
\* currentPlayingRef: the refs of PlaybackProvider.  op: the last operation
\* that called out or touched the transport; calls: the calls it made, in
\* order (a change of the speed prop and a pan gesture that does nothing
\* leave both as they are).  session[p] is history: the seek time
\* of a seek-then-play run and the notes triggered in it.  run[p] is
\* history too, of the run of play p is in: the time the last run of animate
\* computed (at) and Date.now() then (wall), the speed the prop was changed
\* to during the run (set, 0 if it was not) and whether animate has run
\* since that change (since).

\* the splash screen before its effect runs: clock is the time in units
\* of SplashUnitMs, init the promise of AudioManager.initialize(), timers
\* the pending setTimeout, completes the calls of onInitComplete
NoSplash ==
  [ initStarted |-> FALSE, effects |-> 0, init |-> "none", clock |-> 0,
    timers |-> {}, progress |-> 0, status |-> "preparing", completes |-> 0 ]


Op(name, p, arg) == [name |-> name, p |-> p, arg |-> arg]

TrigOf(out) == { out[i].arg : i \in { j \in 1..Len(out) : out[j].call = "playNote" } }

\* the history of the run of play after a handler took the viewer from v to
\* w at time t: none if w is not playing, a new run if the handler started
\* to play (handlePlayPause has called animate), the old one otherwise
RunAfter(rn, v, w, t) ==
  IF ~w.isPlaying THEN [NoRun EXCEPT !.heard = rn.heard]
  ELSE IF ~v.isPlaying
  THEN [NoRun EXCEPT !.at = w.currentTime, !.wall = t, !.heard = rn.heard]
  ELSE rn

\* the notes heard after a handler that made the calls out; reset: the
\* handler was a seek, a stop or a load
HeardAfter(rn, out, reset) ==
  [rn EXCEPT !.heard = IF reset THEN TrigOf(out) ELSE @ \cup TrigOf(out),
             !.clean = FALSE, !.once = {}, !.again = {}, !.ended = FALSE]

\* the history after a press of play/pause that took the viewer from v to
\* w and made the calls out: a clean run begins if it started to play at
\* currentTime 0
CleanAfter(rn, v, w, out) ==
  IF ~v.isPlaying /\ w.isPlaying /\ v.currentTime = 0
  THEN [rn EXCEPT !.clean = TRUE, !.once = TrigOf(out)]
  ELSE rn

Init ==
  /\ now = 0
  /\ viewer = [p \in Players |-> NoViewer]
  /\ playersRef = <<>>
  /\ currentPlayingRef = None
  /\ op = Op("init", None, 0)
  /\ calls = <<>>
  /\ session = [p \in Players |-> NoSession]
  /\ run = [p \in Players |-> NoRun]
  /\ file = NoFile /\ buf = <<>> /\ parsed = NotParsed
  /\ am = NoAudioManager /\ tasks = <<>>
  /\ splash = NoSplash

\* Date.now() moves on.  Only animate and the start of play read the clock,
\* and play uses it as the origin of what animate reads: time is let pass
\* only while a frame is pending.
Advance ==
  /\ now < MaxNow
  /\ \E p \in Players : viewer[p].frames # {}
  /\ now' = now + 1
  /\ UNCHANGED <<libVars, viewer, playersRef, currentPlayingRef, op, calls, session, run>>

\* a new instance of the component is mounted (none of the old one's
\* callbacks is still pending)
Mount(p, auto, sp) ==
  /\ ~viewer[p].mounted /\ viewer[p].frames = {}
  /\ viewer' = [viewer EXCEPT ![p] = FreshViewer(auto, sp)]
  /\ session' = [session EXCEPT ![p] = NoSession]
  /\ run' = [run EXCEPT ![p] = NoRun]
  /\ op' = Op("mount", p, 0) /\ calls' = <<>>
  /\ UNCHANGED <<libVars, now, currentPlayingRef>>

\* the component is unmounted: none of its effects has a cleanup
Unmount(p) ==
  /\ viewer[p].mounted
  /\ viewer' = [viewer EXCEPT ![p].mounted = FALSE]
  /\ session' = [session EXCEPT ![p] = NoSession]
  /\ op' = Op("unmount", p, IF viewer[p].isPlaying THEN 1 ELSE 0) /\ calls' = <<>>
  /\ UNCHANGED <<libVars, now, playersRef, currentPlayingRef, run>>

\* the speed prop changes
SetSpeed(p, sp) ==
  /\ viewer[p].mounted /\ sp # viewer[p].speed
  /\ viewer' = [viewer EXCEPT ![p].speed = sp]
  /\ run' = [run EXCEPT ![p] = IF viewer[p].isPlaying
                                THEN [@ EXCEPT !.set = sp, !.since = FALSE, !.clean = FALSE]
                                ELSE @]
  /\ UNCHANGED <<libVars, now, playersRef, currentPlayingRef, op, calls, session>>

\* the midiData / midiUrl / midiFilePath prop changes and the load completes
LoadMIDI(p, k) ==
  /\ viewer[p].mounted
  /\ LET r == loadMIDI(p, viewer[p], k, now)
     IN /\ viewer' = [viewer EXCEPT ![p] = r.v]
        /\ run' = [run EXCEPT ![p] =
               HeardAfter(RunAfter(@, viewer[p], r.v, now), r.out, k # LoadFails)]
        /\ calls' = r.out
  /\ session' = [session EXCEPT ![p] = IF k = LoadFails THEN @ ELSE NoSession]
  /\ op' = Op(IF k = LoadFails THEN "loadFailed" ELSE "load", p, IF viewer[p].isPlaying THEN 1 ELSE 0)
  /\ UNCHANGED <<libVars, now, playersRef, currentPlayingRef>>

\* what a press of play/pause does to the history
SessionOnPlayPause(v, ss, out) ==
  IF Len(v.notes) = 0 THEN ss
  ELSE IF v.isPlaying THEN NoSession
  ELSE IF ss.t >= 0 /\ ~ss.started
  THEN [ss EXCEPT !.started = TRUE, !.triggered = TrigOf(out)]
  ELSE NoSession

\* the play/pause button
PlayPausePress(p) ==
  /\ viewer[p].mounted /\ ~viewer[p].isLoading
  /\ LET r == handlePlayPause(p, viewer[p], now)
     IN /\ viewer' = [viewer EXCEPT ![p] = r.v]
        /\ run' = [run EXCEPT ![p] =
               CleanAfter(HeardAfter(RunAfter(@, viewer[p], r.v, now), r.out, FALSE),
                          viewer[p], r.v, r.out)]
        /\ calls' = r.out
        /\ session' = [session EXCEPT ![p] = SessionOnPlayPause(viewer[p], @, r.out)]
  /\ op' = Op(IF Len(viewer[p].notes) = 0 THEN "playNoNotes"
              ELSE IF viewer[p].isPlaying THEN "pause" ELSE "play", p, viewer[p].currentTime)
  /\ UNCHANGED <<libVars, now, playersRef, currentPlayingRef>>

\* the stop button: handleReset
StopPress(p) ==
  /\ viewer[p].mounted /\ ~viewer[p].isLoading
  /\ LET r == handleStop(p, viewer[p])
     IN /\ viewer' = [viewer EXCEPT ![p] = r.v]
        /\ run' = [run EXCEPT ![p] =
               HeardAfter(RunAfter(@, viewer[p], r.v, now), r.out, TRUE)]
        /\ calls' = r.out
  /\ session' = [session EXCEPT ![p] = NoSession]
  /\ op' = Op("stop", p, IF viewer[p].isPlaying THEN 1 ELSE 0)
  /\ UNCHANGED <<libVars, now, playersRef, currentPlayingRef>>

\* a press on the falling-notes canvas: onSeek(time)
CanvasPress(p, time) ==
  /\ viewer[p].mounted
  /\ LET r == handleSeek(p, viewer[p], time)
     IN /\ viewer' = [viewer EXCEPT ![p] = r.v]
        /\ run' = [run EXCEPT ![p] =
               HeardAfter(RunAfter(@, viewer[p], r.v, now), r.out, TRUE)]
        /\ calls' = r.out
  /\ session' = [session EXCEPT ![p] =
         [NoSession EXCEPT !.t = time]]
  /\ op' = Op("seek", p, IF viewer[p].isPlaying THEN 1 ELSE 0)
  /\ UNCHANGED <<libVars, now, playersRef, currentPlayingRef>>

\* what a pan handler that returned r leaves behind
PanStep(p, r) ==
  /\ viewer' = [viewer EXCEPT ![p] = r.v]
  /\ run' = [run EXCEPT ![p] =
         HeardAfter(RunAfter(@, viewer[p], r.v, now), r.out,
                    ~(r.v = viewer[p] /\ r.out = <<>>))]
  /\ IF r.v = viewer[p] /\ r.out = <<>>
     THEN UNCHANGED <<op, calls, session>>
     ELSE /\ op' = Op("pan", p, IF viewer[p].isPlaying THEN 1 ELSE 0)
          /\ calls' = r.out
          /\ session' = [session EXCEPT ![p] = NoSession]
  /\ UNCHANGED <<libVars, now, playersRef, currentPlayingRef>>

PanGrant(p, pct) ==
  /\ viewer[p].mounted
  /\ PanStep(p, onPanResponderGrant(p, viewer[p], pct, now))

PanMove(p, pct) ==
  /\ viewer[p].mounted
  /\ PanStep(p, onPanResponderMove(p, viewer[p], pct, now))

PanRelease(p) ==
  /\ viewer[p].mounted
  /\ PanStep(p, onPanResponderRelease(p, viewer[p]))

\* a pending animation frame of p fires
Tick(p) ==
  \E f \in viewer[p].frames :
    LET v0 == [viewer[p] EXCEPT !.frames = @ \ {f}]
        r  == animate(p, v0, f.cl, now)
        at == AdjustedTime(v0, f.cl, now)
    IN /\ viewer' = [viewer EXCEPT ![p] = r.v]
       /\ calls' = r.out
       /\ session' = [session EXCEPT ![p] =
              IF @.started THEN [@ EXCEPT !.triggered = @ \cup TrigOf(r.out)] ELSE @]
       /\ run' = [run EXCEPT ![p] =
              [@ EXCEPT !.at = at, !.wall = now, !.since = (run[p].set # 0),
                        !.heard = IF PlayedEnough(f.cl, at) THEN {}
                                  ELSE @ \cup TrigOf(r.out),
                        !.clean = @ /\ ~run[p].ended /\ at - run[p].at < WindowSpan,
                        !.once = @ \cup TrigOf(r.out),
                        !.again = @ \cup (TrigOf(r.out) \cap run[p].once),
                        !.ended = @ \/ PlayedEnough(f.cl, at)]]
       /\ op' = Op("animate", p, at)
       /\ UNCHANGED <<libVars, now, playersRef, currentPlayingRef>>

\* one MIDIViewer, as in MIDIViewer.tsx (it does not use the registry)
ViewerNext(p) ==
  \/ \E auto \in AutoPlayProps, sp \in Speeds : Mount(p, auto, sp) /\ UNCHANGED playersRef
  \/ Unmount(p)
  \/ \E sp \in Speeds : SetSpeed(p, sp)
  \/ \E k \in EngineLoads : LoadMIDI(p, k)
  \/ PlayPausePress(p)
  \/ StopPress(p)
  \/ \E time \in 0..MaxSeek : CanvasPress(p, time)
  \/ \E pct \in 0..1 : PanGrant(p, pct)
  \/ \E pct \in 0..1 : PanMove(p, pct)
  \/ PanRelease(p)
  \/ Tick(p)

Next == Advance \/ ViewerNext(Engine)

Spec == Init /\ [][Next]_vars

\* ------------------------------------ the viewer between two renders
\* The handlers of the buttons are those of the latest render: they see
\* the state that render saw until the component is rendered again.  The
\* effects run after the render, before anything else.

MaxFrames == 2
RenderAutoPlay == {FALSE, TRUE}
\* the loads of the viewer: the score of one note, or a failure
RenderLoads == {LoadFails, 4}

\* the load completes; the render that follows has the new notes, and its
\* autoPlay effect runs; what that effect sets is not rendered yet
RenderLoad(p, k) ==
  /\ viewer[p].mounted
  /\ LET r == loadMIDI(p, viewer[p], k, now)
     IN /\ viewer' = [viewer EXCEPT ![p] =
               [r.v EXCEPT !.render = [Rendered(r.v) EXCEPT !.isPlaying = viewer[p].isPlaying]]]
        /\ calls' = r.out
  /\ op' = Op(IF k = LoadFails THEN "loadFailed" ELSE "load", p, IF viewer[p].isPlaying THEN 1 ELSE 0)
  /\ UNCHANGED <<libVars, now, playersRef, currentPlayingRef, session, run>>

\* the play/pause button of the latest render is pressed
RenderPlayPause(p) ==
  /\ viewer[p].mounted /\ ~viewer[p].isLoading
  /\ Cardinality(viewer[p].frames) < MaxFrames
  /\ LET r == handlePlayPauseOf(p, viewer[p], viewer[p].render, now)
     IN /\ viewer' = [viewer EXCEPT ![p] = r.v]
        /\ calls' = r.out
  /\ op' = Op(IF Len(viewer[p].render.notes) = 0 THEN "playNoNotes"
              ELSE IF viewer[p].render.isPlaying THEN "pause" ELSE "play", p,
              IF viewer[p].isPlaying = viewer[p].render.isPlaying THEN 0 ELSE 1)
  /\ UNCHANGED <<libVars, now, playersRef, currentPlayingRef, session, run>>

\* the stop button
RenderStop(p) ==
  /\ viewer[p].mounted /\ ~viewer[p].isLoading
  /\ LET r == handleStop(p, viewer[p])
     IN /\ viewer' = [viewer EXCEPT ![p] = r.v]
        /\ calls' = r.out
  /\ op' = Op("stop", p, Cardinality(viewer[p].frames))
  /\ UNCHANGED <<libVars, now, playersRef, currentPlayingRef, session, run>>

\* the component is rendered again with its state
Render(p) ==
  /\ viewer[p].mounted
  /\ viewer[p].render # Rendered(viewer[p])
  /\ viewer' = [viewer EXCEPT ![p].render = Rendered(viewer[p])]
  /\ op' = Op("render", p, 0) /\ calls' = <<>>
  /\ UNCHANGED <<libVars, now, playersRef, currentPlayingRef, session, run>>

RenderNext ==
  \/ Advance
  \/ \E auto \in RenderAutoPlay : Mount(Engine, auto, 1) /\ UNCHANGED playersRef
  \/ \E k \in RenderLoads : RenderLoad(Engine, k)
  \/ RenderPlayPause(Engine)
  \/ RenderStop(Engine)
  \/ Render(Engine)
  \/ Tick(Engine)

SpecRender == Init /\ [][RenderNext]_vars

\* ---------------------------------------- viewers that use the registry
\* RecordScreen gives its MIDIViewer a playerId: the viewer registers its
\* handleStop when it mounts, unregisters when it unmounts and calls
\* notifyPlaybackStart(playerId) when it starts to play.

PlayerMount(p) ==
  /\ Mount(p, FALSE, 1)
  /\ playersRef' = registerPlayer(playersRef, p)

PlayerUnmount(p) ==
  /\ viewer[p].mounted
  /\ viewer' = [viewer EXCEPT ![p].mounted = FALSE]
  /\ session' = [session EXCEPT ![p] = NoSession]
  /\ playersRef' = unregisterPlayer(playersRef, p)
  /\ currentPlayingRef' = IF currentPlayingRef = p THEN None ELSE currentPlayingRef
  /\ op' = Op("unmount", p, IF viewer[p].isPlaying THEN 1 ELSE 0) /\ calls' = <<>>
  /\ UNCHANGED <<libVars, now, run>>

PlayerLoad(p) ==
  /\ p \in CoordScored
  /\ \E k \in CoordLoads : LoadMIDI(p, k)

OthersPlaying(p) == { q \in Players \ {p} : InRegistry(playersRef, q) /\ viewer[q].isPlaying }

PlayerPlayPause(p) ==
  /\ viewer[p].mounted /\ ~viewer[p].isLoading
  /\ IF Len(viewer[p].notes) > 0 /\ ~viewer[p].isPlaying
     THEN LET n == notifyPlaybackStart(playersRef, p, viewer, {}, currentPlayingRef)
              r == handlePlayPause(p, n.v[p], now)
          IN /\ viewer' = [n.v EXCEPT ![p] = r.v]
             /\ calls' = n.out \o r.out
             /\ currentPlayingRef' = n.cur
             /\ op' = Op("playerPlay", p, Cardinality(OthersPlaying(p)))
             /\ session' = [q \in Players |-> NoSession]
             /\ run' = [q \in Players |->
                          HeardAfter(RunAfter(run[q], viewer[q], IF q = p THEN r.v ELSE n.v[q], now),
                                     IF q = p THEN r.out ELSE <<>>,
                                     q # p /\ InRegistry(playersRef, q))]
     ELSE LET r == handlePlayPause(p, viewer[p], now)
          IN /\ viewer' = [viewer EXCEPT ![p] = r.v]
             /\ calls' = r.out
             /\ op' = Op(IF Len(viewer[p].notes) = 0 THEN "playNoNotes" ELSE "pause", p, 0)
             /\ run' = [run EXCEPT ![p] =
                    HeardAfter(RunAfter(@, viewer[p], r.v, now), r.out, FALSE)]
             /\ UNCHANGED <<currentPlayingRef, session>>
  /\ UNCHANGED <<libVars, now, playersRef>>

\* notifyPlaybackStart called with any id, registered or not; the
\* callbacks are the handleStop of the viewers, which does not throw
NotifyStart(id) ==
  /\ LET n == notifyPlaybackStart(playersRef, id, viewer, {}, currentPlayingRef)
     IN /\ viewer' = n.v
        /\ calls' = n.out
        /\ currentPlayingRef' = n.cur
        /\ run' = [q \in Players |->
                     HeardAfter(RunAfter(run[q], viewer[q], n.v[q], now), <<>>,
                                q # id /\ InRegistry(playersRef, q))]
  /\ op' = Op("notifyPlaybackStart", id, Cardinality(OthersPlaying(id)))
  /\ session' = [q \in Players |-> NoSession]
  /\ UNCHANGED <<libVars, now, playersRef>>

\* Date.now() moves on, as in Advance, within the bound of this specification
CoordAdvance ==
  /\ now < CoordMaxNow
  /\ \E p \in Players : viewer[p].frames # {}
  /\ now' = now + 1
  /\ UNCHANGED <<libVars, viewer, playersRef, currentPlayingRef, op, calls, session, run>>

CoordNext ==
  \/ CoordAdvance
  \/ \E p \in Players :
        \/ PlayerMount(p)
        \/ PlayerUnmount(p)
        \/ PlayerLoad(p)
        \/ PlayerPlayPause(p)
        \/ StopPress(p)
        \/ Tick(p)
        \/ NotifyStart(p)

SpecCoord == Init /\ [][CoordNext]_vars

\* ------------------------------------------------ the registry on its own
\* registerPlayer, unregisterPlayer and notifyPlaybackStart called in any
\* order with any ids, by registrants of which any may have given a
\* callback that throws.

Register(id) ==
  /\ playersRef' = registerPlayer(playersRef, id)
  /\ op' = Op("registerPlayer", id, 0) /\ calls' = <<>>
  /\ UNCHANGED <<libVars, now, viewer, currentPlayingRef, session, run>>

Unregister(id) ==
  /\ playersRef' = unregisterPlayer(playersRef, id)
  /\ currentPlayingRef' = IF currentPlayingRef = id THEN None ELSE currentPlayingRef
  /\ op' = Op("unregisterPlayer", id,
              (IF InRegistry(playersRef, id) THEN 1 ELSE 0)
                + (IF currentPlayingRef = id THEN 2 ELSE 0))
  /\ calls' = <<>>
  /\ UNCHANGED <<libVars, now, viewer, session, run>>

Notify(id) ==
  /\ \E bad \in SUBSET Players :
        LET n == notifyPlaybackStart(playersRef, id, viewer, bad, currentPlayingRef)
        IN /\ viewer' = n.v
           /\ calls' = n.out
           /\ currentPlayingRef' = n.cur
           /\ op' = Op(IF n.err THEN "notifyPlaybackStartThrew" ELSE "notifyPlaybackStart",
                       id, Cardinality({q \in bad \ {id} : InRegistry(playersRef, q)}))
  /\ UNCHANGED <<libVars, now, playersRef, session, run>>

RegistryNext ==
  \E id \in Players : Register(id) \/ Unregister(id) \/ Notify(id)

SpecRegistry == Init /\ [][RegistryNext]_vars

\* ------------------------------------------------- midiParser: parseMidiBuffer
\* A buffer is a sequence of bytes; offsets are 0-based as in the DataView.
\* Times are in microseconds (the source's seconds times 10^6), a velocity
\* is the numerator of the source's velocity / 127.  The files given to the
\* parser have ticks and tempos for which tick * tempo / ticksPerBeat is a
\* whole number of microseconds.

NoteOnType == 144
NoteOffType == 128
ControlChangeType == 176
ProgramChangeType == 192
ChannelPressureType == 208
PitchBendType == 224
MetaStatus == 255
SysExStatus == 240
SysExEndStatus == 247
SetTempoType == 81
DefaultTempo == 500000
HeaderSize == 14

MThd == <<77, 84, 104, 100>>
MTrk == <<77, 84, 114, 107>>
noteNames == <<"C", "C#", "D", "D#", "E", "F", "F#", "G", "G#", "A", "A#", "B">>

RangeError == "RangeError"
NotMidi == "not a valid MIDI file"

\* view.getUint8 / getUint16 / getUint32 (big-endian); the callers check
\* the range first and throw RangeError as the DataView does
InRange(b, o, n) == o >= 0 /\ o + n <= Len(b)
getUint8(b, o) == b[o + 1]
getUint16(b, o) == b[o + 1] * 256 + b[o + 2]
getUint32(b, o) == ((b[o + 1] * 256 + b[o + 2]) * 256 + b[o + 3]) * 256 + b[o + 4]
Chars4(b, o) == <<b[o + 1], b[o + 2], b[o + 3], b[o + 4]>>

\* the do-while of readVariableLength, after bytesRead bytes gave value
RECURSIVE VarLenLoop(_, _, _, _)
VarLenLoop(b, offset, value, bytesRead) ==
  IF offset + bytesRead >= Len(b)
  THEN [value |-> value, bytesRead |-> bytesRead]
  ELSE LET byte == getUint8(b, offset + bytesRead)
           v    == value * 128 + (byte % 128)
       IN IF byte >= 128 /\ bytesRead + 1 < 4
          THEN VarLenLoop(b, offset, v, bytesRead + 1)
          ELSE [value |-> v, bytesRead |-> bytesRead + 1]

\* (mutant) a readVariableLength that reads no byte
readVariableLengthReadsNothing(b, offset) == [value |-> 0, bytesRead |-> 0]

readVariableLength(b, offset) == VarLenLoop(b, offset, 0, 0)

midiNoteToName(midiNote) == noteNames[(midiNote % 12) + 1] \o ToString((midiNote \div 12) - 1)

\* activeNotes: the Map from key number to the pending Note-On
MapSet(m, k, x) == [j \in DOMAIN m \cup {k} |-> IF j = k THEN x ELSE m[j]]
MapDelete(m, k) == [j \in DOMAIN m \ {k} |-> m[j]]

Throw(s, e) == [s EXCEPT !.err = e]

\* (mutant) the closing that leaves the pending Note-On in the map
CloseNoteKeepsPending(s, note) ==
  IF note \in DOMAIN s.activeNotes
  THEN [s EXCEPT !.noteEvents = Append(@, [note |-> midiNoteToName(note),
                                           startTick |-> s.activeNotes[note].startTick,
                                           endTick |-> s.currentTick,
                                           velocity |-> s.activeNotes[note].velocity])]
  ELSE s

\* the closing of key note at the current tick: a note event if a Note-On
\* is pending
CloseNote(s, note) ==
  IF note \in DOMAIN s.activeNotes
  THEN [s EXCEPT !.noteEvents = Append(@, [note |-> midiNoteToName(note),
                                           startTick |-> s.activeNotes[note].startTick,
                                           endTick |-> s.currentTick,
                                           velocity |-> s.activeNotes[note].velocity]),
                 !.activeNotes = MapDelete(@, note)]
  ELSE s

IsSetTempoOfAnyLength(metaType, length) == metaType = SetTempoType

\* if (metaType === 0x51 && length === 3)
IsSetTempo(metaType, length) == metaType = SetTempoType /\ length = 3

\* the body of the event loop after the status byte: s.offset is at the
\* first data byte
DecodeEvent(b, s, status) ==
  LET messageType == status - (status % 16)
  IN IF messageType = NoteOnType
     THEN IF ~InRange(b, s.offset, 2) THEN Throw(s, RangeError)
          ELSE LET note     == getUint8(b, s.offset)
                   velocity == getUint8(b, s.offset + 1)
                   s1       == [s EXCEPT !.offset = @ + 2]
               IN IF velocity > 0
                  THEN [s1 EXCEPT !.activeNotes =
                           MapSet(@, note, [startTick |-> s.currentTick, velocity |-> velocity])]
                  ELSE CloseNote(s1, note)
     ELSE IF messageType = NoteOffType
     THEN IF ~InRange(b, s.offset, 2) THEN Throw(s, RangeError)
          ELSE CloseNote([s EXCEPT !.offset = @ + 2], getUint8(b, s.offset))
     ELSE IF messageType \in {ControlChangeType, PitchBendType}
     THEN [s EXCEPT !.offset = @ + 2]
     ELSE IF messageType \in {ProgramChangeType, ChannelPressureType}
     THEN [s EXCEPT !.offset = @ + 1]
     ELSE IF status = MetaStatus
     THEN IF ~InRange(b, s.offset, 1) THEN Throw(s, RangeError)
          ELSE LET metaType == getUint8(b, s.offset)
                   vl       == readVariableLength(b, s.offset + 1)
                   o        == s.offset + 1 + vl.bytesRead
               IN IF IsSetTempo(metaType, vl.value)
                  THEN IF ~InRange(b, o, 3) THEN Throw(s, RangeError)
                       ELSE [s EXCEPT !.tempo = (getUint8(b, o) * 256 + getUint8(b, o + 1)) * 256
                                                   + getUint8(b, o + 2),
                                      !.offset = o + vl.value]
                  ELSE [s EXCEPT !.offset = o + vl.value]
     ELSE IF status \in {SysExStatus, SysExEndStatus}
     THEN LET vl == readVariableLength(b, s.offset)
          IN [s EXCEPT !.offset = @ + vl.bytesRead + vl.value]
     ELSE s

\* (mutant) the status taken as if the byte read were always a status byte
readStatusSkipsByte(s, raw) ==
  [s EXCEPT !.offset = @ + 1, !.lastStatus = IF raw < 128 THEN @ ELSE raw]

\* if (status < 0x80) status = lastStatus; else { offset++; lastStatus = status; }
readStatus(s, raw) ==
  IF raw < 128 THEN s ELSE [s EXCEPT !.offset = @ + 1, !.lastStatus = raw]

\* one iteration of the event loop: the delta-time, the status, the event
EventStep(b, s) ==
  LET vl == readVariableLength(b, s.offset)
      s1 == [s EXCEPT !.offset = @ + vl.bytesRead, !.currentTick = @ + vl.value]
  IN IF s1.offset >= Len(b)
     THEN s1
     ELSE LET raw == getUint8(b, s1.offset)
              s2  == readStatus(s1, raw)
          IN DecodeEvent(b, s2, s2.lastStatus)

\* while (offset < trackEnd && offset < view.byteLength), left also by a throw
InEventLoop(b, trackEnd, s) == s.err = "" /\ s.offset < trackEnd /\ s.offset < Len(b)

RECURSIVE EventLoop(_, _, _)
EventLoop(b, trackEnd, s) ==
  IF ~InEventLoop(b, trackEnd, s) THEN s ELSE EventLoop(b, trackEnd, EventStep(b, s))

\* for (let track = 0; track < trackCount; track++)
RECURSIVE TrackLoop(_, _, _, _)
TrackLoop(b, track, trackCount, s) ==
  IF s.err # "" \/ track >= trackCount
  THEN s
  ELSE IF ~InRange(b, s.offset, 4) THEN Throw(s, RangeError)
  ELSE IF Chars4(b, s.offset) # MTrk THEN s
  ELSE IF ~InRange(b, s.offset + 4, 4) THEN Throw(s, RangeError)
  ELSE LET trackEnd == s.offset + 8 + getUint32(b, s.offset + 4)
           s1 == EventLoop(b, trackEnd,
                           [s EXCEPT !.offset = @ + 8, !.currentTick = 0, !.lastStatus = 0])
       IN TrackLoop(b, track + 1, trackCount,
                    IF s1.err # "" THEN s1 ELSE [s1 EXCEPT !.offset = trackEnd])

\* (mutant) the conversion that takes every tick for a beat
TickTimeOfBeats(tick, tempo, ticksPerBeat) == tick * tempo

\* event.startTick * secondsPerTick, in microseconds
TickTime(tick, tempo, ticksPerBeat) == (tick * tempo) \div ticksPerBeat

ToNote(e, tempo, ticksPerBeat) ==
  [note      |-> e.note,
   startTime |-> TickTime(e.startTick, tempo, ticksPerBeat),
   duration  |-> TickTime(e.endTick, tempo, ticksPerBeat) - TickTime(e.startTick, tempo, ticksPerBeat),
   velocity  |-> e.velocity]

\* n put into the sorted sequence ns after the notes that do not start later
\* (Array.prototype.sort is stable)
RECURSIVE InsertNote(_, _)
InsertNote(ns, n) ==
  IF ns = <<>> THEN <<n>>
  ELSE IF ns[Len(ns)].startTime <= n.startTime THEN Append(ns, n)
  ELSE Append(InsertNote(SubSeq(ns, 1, Len(ns) - 1), n), ns[Len(ns)])

\* (mutant) the notes left in the order they were closed in
SortKeepsOrder(ns, k) == ns

\* notes.sort((a, b) => a.startTime - b.startTime), of the first k notes
RECURSIVE SortByStartTime(_, _)
SortByStartTime(ns, k) ==
  IF k = 0 THEN <<>> ELSE InsertNote(SortByStartTime(ns, k - 1), ns[k])

\* (mutant) the total duration taken from the starts of the notes
MaxEndFromStarts(es, tempo, ticksPerBeat) ==
  LET ends == {0} \cup { TickTime(es[i].startTick, tempo, ticksPerBeat) : i \in 1..Len(es) }
  IN CHOOSE m \in ends : \A x \in ends : x <= m

\* duration = Math.max(duration, endTime) over the note events, from 0
MaxEnd(es, tempo, ticksPerBeat) ==
  LET ends == {0} \cup { TickTime(es[i].endTick, tempo, ticksPerBeat) : i \in 1..Len(es) }
  IN CHOOSE m \in ends : \A x \in ends : x <= m

\* Math.round(60000000 / tempo)
TempoBPM(tempo) == (2 * 60000000 + tempo) \div (2 * tempo)

Failed(e) == [ok |-> FALSE, error |-> e]

\* (mutant) parseMidiBuffer that does not look at the magic
parseMidiBufferAnyMagic(b) ==
  IF ~InRange(b, 0, HeaderSize) THEN Failed(RangeError)
  ELSE [ok |-> TRUE,
        score |-> [notes |-> <<>>, duration |-> 0, tempo |-> TempoBPM(DefaultTempo),
                   timeSignature |-> <<4, 4>>, tracks |-> <<>>]]

\* the variables of parseMidiBuffer before the first track
ParserStart ==
  [offset |-> HeaderSize, currentTick |-> 0, lastStatus |-> 0, tempo |-> DefaultTempo,
   noteEvents |-> <<>>, activeNotes |-> <<>>, err |-> ""]

\* what parseMidiBuffer returns or throws after the track loop
ParserResult(s, ticksPerBeat) ==
  LET ns == [i \in 1..Len(s.noteEvents) |-> ToNote(s.noteEvents[i], s.tempo, ticksPerBeat)]
  IN IF s.err # "" THEN Failed(s.err)
     ELSE [ok |-> TRUE,
           score |-> [notes |-> SortByStartTime(ns, Len(ns)),
                      duration |-> MaxEnd(s.noteEvents, s.tempo, ticksPerBeat),
                      tempo |-> TempoBPM(s.tempo),
                      timeSignature |-> <<4, 4>>,
                      tracks |-> <<>>]]

\* parseMidiBuffer(buffer): the score returned, or the error thrown
parseMidiBuffer(b) ==
  IF ~InRange(b, 0, 4) THEN Failed(RangeError)
  ELSE IF Chars4(b, 0) # MThd THEN Failed(NotMidi)
  ELSE IF ~InRange(b, 0, HeaderSize) THEN Failed(RangeError)
  ELSE LET trackCount   == getUint16(b, 10)
           ticksPerBeat == getUint16(b, 12) % 32768
       IN ParserResult(TrackLoop(b, 0, trackCount, ParserStart), ticksPerBeat)

\* ---------------------------------------------- the files given to the parser
\* A file is described by its tracks, each a sequence of events with their
\* delta-times, the key its notes use, its division, and where it is cut.

MaxEvents == 3
MaxEvents2 == 2
MaxCutEvents == 2

Ev(e, d) == [e |-> e, d |-> d]

\* the events a track is made of: Note-On, Note-Off, Note-On with velocity
\* 0 and Set Tempo with a status byte, and two data bytes under running
\* status
Alphabet == { Ev("on", 0), Ev("on", 480), Ev("off", 0), Ev("off", 480),
              Ev("onZero", 480), Ev("tempo", 0), Ev("run", 480) }

\* <<key, ticks per beat>> of a file
Tunings == { <<60, 480>>, <<61, 240>>, <<21, 480>> }

BadMagic == <<88, 88, 88, 88>>
Uncut == 0 - 1

SeqsUpTo(S, n) == UNION { [1..k -> S] : k \in 0..n }

\* a delta-time below 2^14 as a variable-length quantity
VarLen(n) == IF n < 128 THEN <<n>> ELSE <<128 + (n \div 128), n % 128>>

EventBytes(ev, key) ==
  VarLen(ev.d) \o
    (CASE ev.e = "on"     -> <<NoteOnType, key, 100>>
       [] ev.e = "off"    -> <<NoteOffType, key, 64>>
       [] ev.e = "onZero" -> <<NoteOnType, key, 0>>
       [] ev.e = "onSoft" -> <<NoteOnType, key, 50>>
       [] ev.e = "tempo"  -> <<MetaStatus, SetTempoType, 3, 3, 208, 144>>
       [] ev.e = "tempo2" -> <<MetaStatus, SetTempoType, 3, 1, 134, 160>>
       [] ev.e = "tempoShort" -> <<MetaStatus, SetTempoType, 2, 1, 134>>
       [] ev.e = "tempoLong"  -> <<MetaStatus, SetTempoType, 4, 1, 134, 160, 0>>
       [] ev.e = "run"    -> <<key, 0>>
       [] ev.e = "runOn"  -> <<key, 100>>)

\* the tempos the file's Set Tempo events carry ("tempo" and "tempo2")
FileTempo == (3 * 256 + 208) * 256 + 144
FileTempo2 == (1 * 256 + 134) * 256 + 160

RECURSIVE EventsBytes(_, _)
EventsBytes(evs, key) ==
  IF evs = <<>> THEN <<>> ELSE EventBytes(Head(evs), key) \o EventsBytes(Tail(evs), key)

\* a track chunk: the events and End of Track
TrackBytes(evs, key) ==
  LET body == EventsBytes(evs, key) \o <<0, MetaStatus, 47, 0>>
  IN MTrk \o <<0, 0, Len(body) \div 256, Len(body) % 256>> \o body

RECURSIVE TracksBytes(_, _)
TracksBytes(ts, key) ==
  IF ts = <<>> THEN <<>> ELSE TrackBytes(Head(ts), key) \o TracksBytes(Tail(ts), key)

WholeBytes(f) ==
  f.magic \o <<0, 0, 0, 6, 0, 1, 0, Len(f.tracks), f.tuning[2] \div 256, f.tuning[2] % 256>>
    \o TracksBytes(f.tracks, f.tuning[1])

\* where the chunk of track k begins in the bytes of a file of tracks ts
RECURSIVE TrackOffset(_, _, _)
TrackOffset(ts, key, k) ==
  IF k <= 1 THEN HeaderSize
  ELSE TrackOffset(ts, key, k - 1) + Len(TrackBytes(ts[k - 1], key))

\* the bytes of f with "MTrx" as the magic of its track f.badTrack
BadTrackBytes(f) ==
  LET w == WholeBytes(f)
      o == TrackOffset(f.tracks, f.tuning[1], f.badTrack)
  IN [i \in 1..Len(w) |-> IF i = o + 4 THEN 120 ELSE w[i]]

FileBytes(f) ==
  LET w == IF f.badTrack = 0 THEN WholeBytes(f) ELSE BadTrackBytes(f)
  IN IF f.cut = Uncut THEN w ELSE SubSeq(w, 1, f.cut)

File(tuning, tracks, magic, cut) ==
  [tuning |-> tuning, tracks |-> tracks, magic |-> magic, cut |-> cut, badTrack |-> 0]

\* whole files of one track and of two
WholeFiles ==
  { File(tu, <<evs>>, MThd, Uncut) : tu \in Tunings, evs \in SeqsUpTo(Alphabet, MaxEvents) }
  \cup { File(<<60, 480>>, <<e1, e2>>, MThd, Uncut) :
            e1 \in SeqsUpTo(Alphabet, MaxEvents2), e2 \in SeqsUpTo(Alphabet, MaxEvents2) }

\* the files that are cut somewhere: one track, or a track followed by an
\* empty one
CutSources ==
  { File(<<60, 480>>, ts, MThd, Uncut) :
       ts \in { <<evs>> : evs \in SeqsUpTo(Alphabet, MaxCutEvents) }
              \cup { <<evs, <<>> >> : evs \in SeqsUpTo(Alphabet, MaxCutEvents) } }

CutFiles ==
  UNION { { [f EXCEPT !.cut = n] : n \in 0..(Len(WholeBytes(f)) - 1) } : f \in CutSources }

\* the files whose first four bytes are not "MThd"
BadMagicFiles ==
  { File(<<60, 480>>, <<evs>>, m, Uncut) :
       evs \in SeqsUpTo(Alphabet, 1), m \in {BadMagic, <<77, 84, 104, 120>>, <<0, 84, 104, 100>>} }

\* files with Set Tempo events of two values, and events of type 0x51
\* whose length is 2 or 4, before, between and after the events of a note
TempoAlphabet == { Ev("on", 0), Ev("off", 480), Ev("tempo", 0), Ev("tempo2", 0),
                   Ev("tempoShort", 0), Ev("tempoLong", 0) }

TempoFiles ==
  { File(<<60, 480>>, <<evs>>, MThd, Uncut) : evs \in SeqsUpTo(TempoAlphabet, MaxEvents) }
  \cup { File(<<60, 480>>, <<e1, e2>>, MThd, Uncut) :
            e1 \in SeqsUpTo(TempoAlphabet, MaxEvents2), e2 \in SeqsUpTo(TempoAlphabet, MaxEvents2) }

\* files of Note-On events of two velocities and of both kinds of closing
\* event, in every order: notes opened twice, closed twice, never closed
PairAlphabet == { Ev("on", 0), Ev("onSoft", 480), Ev("off", 480), Ev("onZero", 480),
                  Ev("off", 0) }

PairFiles ==
  { File(<<60, 480>>, <<evs>>, MThd, Uncut) : evs \in SeqsUpTo(PairAlphabet, MaxEvents) }
  \cup { File(<<60, 480>>, <<e1, e2>>, MThd, Uncut) :
            e1 \in SeqsUpTo(PairAlphabet, MaxEvents2), e2 \in SeqsUpTo(PairAlphabet, MaxEvents2) }

\* files with events under running status, of velocity 0 and of velocity
\* 100, after a Note-On, a Note-Off, a meta event, or nothing
RunAlphabet == { Ev("on", 0), Ev("off", 480), Ev("tempo", 0), Ev("run", 480), Ev("runOn", 0) }

RunFiles ==
  { File(<<60, 480>>, <<evs>>, MThd, Uncut) : evs \in SeqsUpTo(RunAlphabet, MaxEvents) }
  \cup { File(<<60, 480>>, <<e1, e2>>, MThd, Uncut) :
            e1 \in SeqsUpTo(RunAlphabet, MaxEvents2), e2 \in SeqsUpTo(RunAlphabet, MaxEvents2) }

\* files of one and two tracks in which the magic of one track chunk is
\* not "MTrk"
BadTrackFiles ==
  UNION { { [f EXCEPT !.badTrack = k] : k \in 1..Len(f.tracks) } :
          f \in { File(<<60, 480>>, ts, MThd, Uncut) :
                    ts \in { <<evs>> : evs \in SeqsUpTo(PairAlphabet, MaxEvents2) }
                           \cup { <<e1, e2>> : e1 \in SeqsUpTo(PairAlphabet, MaxEvents2),
                                               e2 \in SeqsUpTo(PairAlphabet, MaxEvents2) } } }

Files ==
  WholeFiles \cup CutFiles \cup BadMagicFiles \cup TempoFiles \cup PairFiles \cup RunFiles
    \cup BadTrackFiles

\* file: the description of the buffer; buf: the buffer; parsed: what
\* parseMidiBuffer(buf) returned or threw, once it has been called
InitParse ==
  /\ now = 0
  /\ viewer = [p \in Players |-> NoViewer]
  /\ playersRef = <<>>
  /\ currentPlayingRef = None
  /\ op = Op("init", None, 0)
  /\ calls = <<>>
  /\ session = [p \in Players |-> NoSession]
  /\ run = [p \in Players |-> NoRun]
  /\ file \in Files
  /\ buf = FileBytes(file)
  /\ parsed = NotParsed
  /\ am = NoAudioManager /\ tasks = <<>>
  /\ splash = NoSplash

Parse ==
  /\ parsed = NotParsed
  /\ parsed' = parseMidiBuffer(buf)
  /\ UNCHANGED <<viewVars, audioVars, splashVars, file, buf>>

SpecParse == InitParse /\ [][Parse]_vars

\* ------------------------------------------- the parser, loop by loop
\* The same parseMidiBuffer run one loop iteration at a time, on buffers
\* made of any bytes after the chunk header.  While it runs, parsed holds
\* where it is: before a track ("track"), in the event loop ("event"), or
\* after the track loop ("end").

MaxBody == 4

\* zero, a data byte, Note-Off, Note-On, a status byte no branch knows,
\* and 0xFF; the last four have the continuation bit of a variable-length
\* quantity
BodyBytes == {0, 60, 128, 144, 244, 255}

\* the declared chunk length: the length of the body, two more, or 1
DeclaredLengths(body) == {Len(body), Len(body) + 2, 1}

RawBuffer(trackCount, declared, body) ==
  MThd \o <<0, 0, 0, 6, 0, 1, 0, trackCount, 1, 224>> \o MTrk \o <<0, 0, 0, declared>> \o body

RawBuffers ==
  { RawBuffer(n, d[1], d[2]) :
      n \in {1, 2},
      d \in UNION { { <<l, body>> : l \in DeclaredLengths(body) } :
                    body \in SeqsUpTo(BodyBytes, MaxBody) } }

LoopBuffers ==
  RawBuffers
    \cup { FileBytes(File(<<60, 480>>, <<evs>>, MThd, Uncut)) : evs \in SeqsUpTo(PairAlphabet, MaxEvents2) }

Running(p) == ~p.ok /\ p.error = "parsing"

At(pc, track, trackCount, ticksPerBeat, trackEnd, s) ==
  [ok |-> FALSE, error |-> "parsing", pc |-> pc, track |-> track, trackCount |-> trackCount,
   ticksPerBeat |-> ticksPerBeat, trackEnd |-> trackEnd, s |-> s]

InitLoop ==
  /\ now = 0
  /\ viewer = [p \in Players |-> NoViewer]
  /\ playersRef = <<>>
  /\ currentPlayingRef = None
  /\ op = Op("init", None, 0)
  /\ calls = <<>>
  /\ session = [p \in Players |-> NoSession]
  /\ run = [p \in Players |-> NoRun]
  /\ file = NoFile
  /\ buf \in LoopBuffers
  /\ parsed = NotParsed
  /\ am = NoAudioManager /\ tasks = <<>>
  /\ splash = NoSplash

\* the header: the magic, the track count and the division
ParseBegin ==
  /\ parsed = NotParsed
  /\ parsed' = IF ~InRange(buf, 0, 4) THEN Failed(RangeError)
               ELSE IF Chars4(buf, 0) # MThd THEN Failed(NotMidi)
               ELSE IF ~InRange(buf, 0, HeaderSize) THEN Failed(RangeError)
               ELSE At("track", 0, getUint16(buf, 10), getUint16(buf, 12) % 32768, 0, ParserStart)
  /\ UNCHANGED <<viewVars, audioVars, splashVars, file, buf>>

\* the test of the track loop and the chunk header of the next track
TrackBegin ==
  /\ Running(parsed) /\ parsed.pc = "track"
  /\ LET s == parsed.s
     IN parsed' =
          IF s.err # "" \/ parsed.track >= parsed.trackCount
          THEN [parsed EXCEPT !.pc = "end"]
          ELSE IF ~InRange(buf, s.offset, 4)
          THEN [parsed EXCEPT !.pc = "end", !.s = Throw(s, RangeError)]
          ELSE IF Chars4(buf, s.offset) # MTrk
          THEN [parsed EXCEPT !.pc = "end"]
          ELSE IF ~InRange(buf, s.offset + 4, 4)
          THEN [parsed EXCEPT !.pc = "end", !.s = Throw(s, RangeError)]
          ELSE [parsed EXCEPT !.pc = "event",
                              !.trackEnd = s.offset + 8 + getUint32(buf, s.offset + 4),
                              !.s = [s EXCEPT !.offset = @ + 8, !.currentTick = 0,
                                              !.lastStatus = 0]]
  /\ UNCHANGED <<viewVars, audioVars, splashVars, file, buf>>

\* one iteration of the event loop
EventIteration ==
  /\ Running(parsed) /\ parsed.pc = "event"
  /\ InEventLoop(buf, parsed.trackEnd, parsed.s)
  /\ parsed' = [parsed EXCEPT !.s = EventStep(buf, parsed.s)]
  /\ UNCHANGED <<viewVars, audioVars, splashVars, file, buf>>

\* the event loop left: offset = trackEnd and the next track, or the throw
TrackEnd ==
  /\ Running(parsed) /\ parsed.pc = "event"
  /\ ~InEventLoop(buf, parsed.trackEnd, parsed.s)
  /\ parsed' = IF parsed.s.err # "" THEN [parsed EXCEPT !.pc = "end"]
               ELSE [parsed EXCEPT !.pc = "track", !.track = @ + 1,
                                   !.s = [parsed.s EXCEPT !.offset = parsed.trackEnd]]
  /\ UNCHANGED <<viewVars, audioVars, splashVars, file, buf>>

\* the conversion and the return, or the throw
ParseEnd ==
  /\ Running(parsed) /\ parsed.pc = "end"
  /\ parsed' = ParserResult(parsed.s, parsed.ticksPerBeat)
  /\ UNCHANGED <<viewVars, audioVars, splashVars, file, buf>>

LoopNext == ParseBegin \/ TrackBegin \/ EventIteration \/ TrackEnd \/ ParseEnd

SpecLoop == InitLoop /\ [][LoopNext]_vars /\ WF_vars(LoopNext)

\* parseMidiBuffer has returned or thrown
ParserReturned == parsed.ok \/ parsed.error \notin {"not parsed", "parsing"}

\* the parser run loop by loop gives what parseMidiBuffer gives
LoopAgrees == ParserReturned => parsed = parseMidiBuffer(buf)

\* ------------------------------------------------------------------ claims
CallsOf(c) == { i \in 1..Len(calls) : calls[i].call = c }

Registered == { p \in Players : InRegistry(playersRef, p) }

\* C1: at most one registered player is playing, in every state the viewers
\* and the registry can reach.
C1_AtMostOnePlaying ==
  Cardinality({ p \in Registered : viewer[p].isPlaying }) <= 1

\* a viewer has started while another registered one was playing
C1_Witness ==
  /\ op.name = "playerPlay" /\ op.arg >= 1
  /\ op.p \in Registered /\ viewer[op.p].isPlaying
  /\ Cardinality(Registered) >= 2

\* C2: notifyPlaybackStart(A) calls the stopCallback of every registered
\* player other than A exactly once, never A's, and records A as the current
\* player after the last of them.
C2_StopsEveryOtherOnce ==
  op.name \in {"notifyPlaybackStart", "playerPlay"} =>
    /\ \A q \in Players :
          Cardinality({ i \in CallsOf("stopCallback") : calls[i].who = q })
            = IF q \in Registered /\ q # op.p THEN 1 ELSE 0
    /\ Cardinality(CallsOf("setCurrentPlaying")) = 1
    /\ \A k \in CallsOf("setCurrentPlaying") :
          /\ calls[k].who = op.p
          /\ \A i \in CallsOf("stopCallback") : i < k
    /\ currentPlayingRef = op.p

\* notifyPlaybackStart(A) with A and two others registered, one of them playing
C2_Witness ==
  /\ op.name = "notifyPlaybackStart" /\ op.arg >= 1
  /\ op.p \in Registered /\ Cardinality(Registered) = 3
  /\ Cardinality(CallsOf("stopCallback")) = 2

\* C24: when callbacks throw during notifyPlaybackStart(id), the callback of
\* every registered player other than id is still called, once,
\* notifyPlaybackStart does not throw and id is the current player after.
C24_ThrowingCallbackIsSkipped ==
  op.name \in {"notifyPlaybackStart", "notifyPlaybackStartThrew"} =>
    /\ op.name = "notifyPlaybackStart"
    /\ \A q \in Players :
          Cardinality({ i \in CallsOf("stopCallback") : calls[i].who = q })
            = IF q \in Registered /\ q # op.p THEN 1 ELSE 0
    /\ Cardinality(CallsOf("console.error")) = op.arg
    /\ currentPlayingRef = op.p

\* the first callback called has thrown, and the other one was called
\* after it
C24_Witness ==
  /\ op.name = "notifyPlaybackStart" /\ op.arg = 1
  /\ Cardinality(Registered) = 3 /\ currentPlayingRef = op.p
  /\ \E i \in CallsOf("console.error"), j \in CallsOf("stopCallback") :
        i < j /\ calls[i].who # calls[j].who

\* C25: unregisterPlayer(id) removes the entry of id and, if id was the
\* current player, leaves no current player; and a notifyPlaybackStart
\* calls the callbacks of no id that is out of the registry (unregistered
\* and not registered again), in any order of the three operations.
C25_UnregisterRemoves ==
  [][ /\ op'.name = "unregisterPlayer" =>
           /\ ~InRegistry(playersRef', op'.p)
           /\ currentPlayingRef' # op'.p
           /\ currentPlayingRef = op'.p => currentPlayingRef' = None
      /\ op'.name \in {"notifyPlaybackStart", "notifyPlaybackStartThrew"} =>
           \A i \in 1..Len(calls') :
              calls'[i].call = "stopCallback" => InRegistry(playersRef, calls'[i].who)
    ]_vars

\* the current player, registered with two others, has been unregistered
C25_Witness ==
  /\ op.name = "unregisterPlayer" /\ op.arg = 3
  /\ op.p \notin Registered /\ Cardinality(Registered) = 2
  /\ currentPlayingRef = None

\* C26 (as claimed): a press of play and a tick hand to playNote no note
\* that was handed to it since the last seek, stop or load.
C26_TriggeredAtMostOnce ==
  [][ (PlayPausePress(Engine) \/ Tick(Engine)) =>
         TrigOf(calls') \cap run[Engine].heard = {} ]_vars

\* the calls of playNote for note i among the calls of the last handler
PlayNoteCalls(i) == { k \in CallsOf("playNote") : calls[k].arg = i }

\* C27: of two notes of the score with the same name and the same start
\* time, a run of animate hands both to playNote (one call each) or
\* neither.
C27_TwinsBothTriggered ==
  [][ (PlayPausePress(Engine) \/ Tick(Engine)) =>
         LET ns == viewer'[Engine].notes
         IN \A i, j \in 1..Len(ns) :
              (ns[i].note = ns[j].note /\ ns[i].startTime = ns[j].startTime
                 /\ i \in TrigOf(calls'))
              => /\ j \in TrigOf(calls')
                 /\ Cardinality({ k \in 1..Len(calls') :
                        calls'[k].call = "playNote" /\ calls'[k].arg = j }) = 1 ]_vars

\* a tick has handed the two E4 of the same start time to playNote
C27_Witness ==
  /\ op.name = "animate" /\ viewer[Engine].isPlaying
  /\ \E i, j \in 1..Len(viewer[Engine].notes) :
        /\ i # j
        /\ viewer[Engine].notes[i].note = viewer[Engine].notes[j].note
        /\ viewer[Engine].notes[i].startTime = viewer[Engine].notes[j].startTime
        /\ PlayNoteCalls(i) # {} /\ PlayNoteCalls(j) # {}

\* C3 (as claimed): after pause, stop or unmount of a playing viewer no frame
\* callback is pending and AudioManager.stopAll() has been called.
C3_CancelledAndSilenced ==
  ((op.name = "pause") \/ (op.name \in {"stop", "unmount"} /\ op.arg = 1)) =>
     /\ viewer[op.p].frames = {}
     /\ CallsOf("stopAll") # {}

\* C4: in a run of play() that follows seek(t), no note that starts before t
\* is triggered, and every note that starts at t or later is triggered by
\* the tick whose time lies in its trigger window, if not by an earlier tick
\* of the run.
C4_SeekThenPlay ==
  \A p \in Players :
    session[p].started =>
      /\ \A i \in session[p].triggered : viewer[p].notes[i].startTime >= session[p].t
      /\ (op.name \in {"play", "animate"} /\ op.p = p) =>
            \A i \in 1..Len(viewer[p].notes) :
               (viewer[p].notes[i].startTime >= session[p].t /\ JustStarted(viewer[p].notes[i], op.arg))
                  => i \in session[p].triggered

\* seek(1) while paused, then play(): the note at 0 is not triggered, the
\* two notes at 2 = 1 + triggerWindow are
C4_Witness ==
  /\ op.name = "play" /\ op.arg = 1
  /\ session[Engine].started /\ session[Engine].t = 1
  /\ Len(viewer[Engine].notes) = 3
  /\ session[Engine].triggered = {2, 3}

\* C5 (as claimed): pause leaves isPlaying false, no frame pending,
\* currentTime as the last tick set it, and has called stopAll().
C5_PauseSilences ==
  op.name = "pause" =>
     /\ ~viewer[op.p].isPlaying
     /\ viewer[op.p].frames = {}
     /\ viewer[op.p].currentTime = op.arg
     /\ CallsOf("stopAll") # {}

\* C6 (as claimed): after seek(time) on a playing viewer, the viewer is
\* playing from currentTime = time with startTimeRef = now - time/speed.
C6_SeekResumes ==
  (op.name = "seek" /\ op.arg = 1) =>
     /\ viewer[op.p].isPlaying
     /\ viewer[op.p].frames # {}
     /\ viewer[op.p].currentTime = session[op.p].t
     /\ viewer[op.p].startTimeRef
           = SpeedScale * now - (SpeedScale \div viewer[op.p].speed) * session[op.p].t

\* C7 (as claimed): a tick of a viewer with a score of at least one note that
\* computes a time >= the score's duration stops the viewer, signals the end
\* of playback once and schedules no frame.
C7_EndsAtDuration ==
  (/\ op.name \in {"play", "animate"}
   /\ viewer[op.p].mounted
   /\ Len(viewer[op.p].notes) > 0
   /\ op.arg >= viewer[op.p].duration) =>
     /\ ~viewer[op.p].isPlaying
     /\ viewer[op.p].frames = {}
     /\ Cardinality(CallsOf("onPlaybackEnd")) = 1

\* C8: play() on a viewer whose score has no notes changes nothing of the
\* viewer, schedules no frame and triggers no note.
C8_PlayWithoutNotes ==
  [][ \A p \in Players :
        (PlayPausePress(p) /\ Len(viewer[p].notes) = 0 /\ ~viewer[p].isPlaying) =>
           /\ viewer'[p] = viewer[p]
           /\ ~viewer'[p].isPlaying
           /\ \A i \in 1..Len(calls') : calls'[i].call \notin {"playNote", "requestAnimationFrame"} ]_vars

\* play has been pressed on a mounted viewer with an empty score
C8_Witness ==
  /\ op.name = "playNoNotes"
  /\ viewer[op.p].mounted /\ ~viewer[op.p].isPlaying /\ viewer[op.p].notes = <<>>
  /\ viewer[op.p].frames = {}

\* C9 (as claimed): a completed load leaves isPlaying false, currentTime 0
\* and the set of played notes empty.
C9_LoadResets ==
  op.name = "load" =>
     /\ ~viewer[op.p].isPlaying
     /\ viewer[op.p].currentTime = 0
     /\ viewer[op.p].playedNotesRef = {}

C11_TimeNeverDecreases ==
  [][ \A p \in Players :
        (Tick(p) /\ run[p].at >= 0) => run'[p].at >= run[p].at ]_vars

\* animate has run after the speed prop changed from 2 to 1 during play,
\* with time already past 0
C11_Witness ==
  /\ op.name = "animate" /\ op.arg >= 2
  /\ run[op.p].set = 1 /\ run[op.p].since
  /\ viewer[op.p].isPlaying /\ viewer[op.p].speed = 1

\* C12 (as claimed): after the speed prop is set to m during play, the time
\* computed by animate grows, from one run of animate to the next, by m
\* times the wall-clock time between them.
C12_SpeedTakesEffect ==
  [][ \A p \in Players :
        (Tick(p) /\ run[p].set # 0 /\ run[p].since) =>
           run'[p].at - run[p].at = run[p].set * (now - run[p].wall) ]_vars

\* --------------------------------------------------------------- AudioManager
\* The singleton of utils/AudioManager.ts, in its two versions: the file
\* AudioManager.ts and the later one of part_010 (which checks the number of
\* loaded samples instead of the progress of a running initialization).
\* A call is a task; each action is one of its synchronous stretches, from
\* the call or the settling of the promise it awaits up to its next await.
\* The 88 samples load as one batch, of which LoadOutcomes are the numbers
\* that may succeed.

NumSamples == 88
ResourceCheck == 80
MaxCalls == 3

Versions == {"AudioManager.ts", "part_010"}
LoadOutcomes == {0, ResourceCheck, NumSamples}

\* the fields of the singleton after its constructor; contexts and loads
\* count the AudioContexts created and the sample batches started, sources
\* the notes handed to the platform
NewAudioManager(ver, web, api) ==
  [NoAudioManager EXCEPT !.ver = ver, !.isWeb = web, !.hasApi = api]

updateInitProgress(a, progress) == [a EXCEPT !.initProgress = progress]

\* [a |-> the singleton, pc |-> what the call awaits ("end": it returned),
\*  ctx, lds |-> the contexts it created and the batches it started]
Step(a, pc, ctx, lds) == [a |-> a, pc |-> pc, ctx |-> ctx, lds |-> lds]

\* new AudioContextClass()
NewContext(a, susp) ==
  [a EXCEPT !.audioContext = a.contexts + 1, !.contexts = @ + 1, !.suspended = susp]

\* the compressor and the gain node, up to the call of loadAudioBuffer
BuildGraph(a, progress) ==
  updateInitProgress([a EXCEPT !.gainNode = TRUE, !.loads = @ + 1], progress)

\* initialize() of AudioManager.ts up to its first await
initializeTs(a, ctorThrows, susp) ==
  IF a.isInitialized THEN Step(updateInitProgress(a, 100), "end", 0, 0)
  ELSE IF a.initProgress > 0 /\ a.initProgress < 100 THEN Step(a, "end", 0, 0)
  ELSE IF a.isWeb
  THEN IF a.hasApi
       THEN IF ctorThrows
            THEN Step([updateInitProgress(a, 100) EXCEPT !.isInitialized = TRUE], "end", 0, 0)
            ELSE IF susp
            THEN Step(updateInitProgress(NewContext(a, susp), 20), "resume", 1, 0)
            ELSE Step(BuildGraph(NewContext(a, susp), 60), "load", 1, 1)
       ELSE Step([updateInitProgress(a, 100) EXCEPT !.isInitialized = TRUE], "end", 0, 0)
  ELSE Step(updateInitProgress(a, 20), "mode", 0, 0)

\* initialize() of part_010 up to its first await
initializePart(a, ctorThrows, susp) ==
  IF a.isInitialized /\ a.resources > ResourceCheck
  THEN Step(updateInitProgress(a, 100), "end", 0, 0)
  ELSE IF a.isWeb
  THEN IF a.hasApi
       THEN IF ctorThrows
            THEN Step(updateInitProgress(a, 100), "end", 0, 0)
            ELSE Step(BuildGraph(NewContext(updateInitProgress(a, 5), susp), 20), "load", 1, 1)
       ELSE Step(updateInitProgress(a, 5), "end", 0, 0)
  ELSE Step(updateInitProgress(a, 5), "mode", 0, 0)

initialize(a, ctorThrows, susp) ==
  IF a.ver = "part_010" THEN initializePart(a, ctorThrows, susp)
  ELSE initializeTs(a, ctorThrows, susp)

\* AudioManager.ts: await this.audioContext.resume() has settled (resumed
\* or not), the graph is built and loadAudioBuffer is called
afterResume(a, resumed) ==
  Step(BuildGraph([a EXCEPT !.suspended = (@ /\ ~resumed)], 60), "load", 0, 1)

\* await Audio.setAudioModeAsync(...) has settled; a rejection goes to the
\* outer catch
afterAudioMode(a, ok) ==
  IF ok
  THEN Step(updateInitProgress([a EXCEPT !.loads = @ + 1], IF a.ver = "part_010" THEN 20 ELSE 40),
            "load", 0, 1)
  ELSE Step(updateInitProgress(a, 100), "end", 0, 0)

\* await loadAudioBuffer() / initializeSoundObjects() has settled with n
\* samples loaded: neither rejects
afterLoad(a, n) ==
  Step([updateInitProgress(a, 100) EXCEPT
           !.resources = IF n > @ THEN n ELSE @, !.isInitialized = TRUE],
       "end", 0, 0)

\* whether the sample of the note played is one of the loaded ones
SampleChoices(a) ==
  { h \in BOOLEAN : (h => a.resources > 0) /\ (~h => a.resources < NumSamples) }

\* the outcome of a block of code: the fields after it, whether an error
\* leaves it, whether one was caught in it
Ok(a) == [a |-> a, err |-> FALSE, caught |-> FALSE]
Err(a) == [a |-> a, err |-> TRUE, caught |-> FALSE]

CatchRethrows(r) == r

\* try { ... } catch (error) { console.warn / console.error / nothing },
\* and promise.catch(() => {})
Catch(r) == [r EXCEPT !.err = FALSE, !.caught = r.err \/ @]

\* playNoteWeb / playNoteMobile: a source is started if the graph (web) or
\* the Sound object of the note (mobile) is there, unless a call of the
\* platform throws or rejects; a name that is none of the 88 keys has no
\* frequency and no Sound object
playNoteNow(a, known, hasSample, throws) ==
  IF a.isWeb
  THEN IF a.audioContext = 0 \/ ~a.gainNode THEN Ok(a)
       ELSE Catch(IF ~known THEN Ok(a)
                  ELSE IF throws THEN Err(a) ELSE Ok([a EXCEPT !.sources = @ + 1]))
  ELSE IF a.resources = 0 \/ ~known \/ ~hasSample THEN Ok(a)
       ELSE Catch(IF throws THEN Err(a) ELSE Ok([a EXCEPT !.sources = @ + 1]))

\* where a stretch of playNote or stopAll ends with outcome r, begun with
\* the fields a: "end" when the call returns, "threw" when it rejects
Played(r, a) ==
  [ a |-> r.a, pc |-> IF r.err THEN "threw" ELSE "end",
    caught |-> r.caught, src |-> r.a.sources - a.sources ]

Awaits(a, pc) == [a |-> a, pc |-> pc, caught |-> FALSE, src |-> 0]

\* playNote after its await of initialize(), up to its next await
playNoteTail(a, known, hasSample, throws) ==
  IF a.isWeb /\ a.audioContext # 0 /\ a.suspended
  THEN IF a.ver = "part_010"
       THEN Played(playNoteNow(a, known, hasSample, throws), a)
       ELSE Awaits(a, "context")
  ELSE Played(playNoteNow(a, known, hasSample, throws), a)

\* playNote after its await of audioContext.resume()
afterContext(a, resumed, known, hasSample, throws) ==
  LET r == Catch(IF resumed THEN Ok([a EXCEPT !.suspended = FALSE]) ELSE Err(a))
      q == playNoteNow(r.a, known, hasSample, throws)
  IN Played([q EXCEPT !.caught = @ \/ r.caught], a)

\* stopAll() up to its first await: on the web every source is stopped
\* in a try of its own, on mobile the Sound objects are stopped one after
\* another (as one batch here)
stopAll(a, throws) ==
  IF a.isWeb THEN Played(Catch(Catch(IF throws THEN Err(a) ELSE Ok(a))), a)
  ELSE IF a.resources = 0 THEN Played(Catch(Ok(a)), a)
  ELSE Awaits(a, "stop")

\* the await sound.stopAsync() of stopAll have settled
afterStop(a, ok) == Played(Catch(Catch(IF ok THEN Ok(a) ELSE Err(a))), a)

\* ---------------------------------------------------- the calls in progress
InitPcs == {"resume", "mode", "load"}

InFlight == \E i \in 1..Len(tasks) : tasks[i].pc \in InitPcs

Completed == \E i \in 1..Len(tasks) : tasks[i].ran /\ tasks[i].pc \notin InitPcs

\* a call of kind "initialize" or "playNote": pc is what it awaits, ran
\* whether it has called initialize(), inflight / after whether an earlier
\* initialize() was running / had returned (and none was running) then,
\* ctx and lds what its initialize() created and started, caught whether
\* it caught an error of the platform, src the sources it started, known
\* whether the name it plays is one of the 88 keys
Task(kind, pc, ran) ==
  [ kind |-> kind, pc |-> pc, ran |-> ran,
    inflight |-> ran /\ InFlight, after |-> ran /\ ~InFlight /\ Completed,
    ctx |-> 0, lds |-> 0, caught |-> FALSE, src |-> 0, known |-> TRUE ]

\* where a call goes when its initialize() has returned
Returned(t) == IF t.kind = "playNote" THEN "returned" ELSE "done"

Proceed(t, s) ==
  [t EXCEPT !.pc = IF s.pc = "end" THEN Returned(t) ELSE s.pc,
            !.ctx = @ + s.ctx, !.lds = @ + s.lds]

\* where a call goes after a stretch of playNote or stopAll
Finish(t, s) ==
  [t EXCEPT !.pc = IF s.pc = "end" THEN "done" ELSE s.pc,
            !.caught = @ \/ s.caught, !.src = @ + s.src]

InitAudio ==
  /\ now = 0
  /\ viewer = [p \in Players |-> NoViewer]
  /\ playersRef = <<>>
  /\ currentPlayingRef = None
  /\ op = Op("init", None, 0)
  /\ calls = <<>>
  /\ session = [p \in Players |-> NoSession]
  /\ run = [p \in Players |-> NoRun]
  /\ file = NoFile /\ buf = <<>> /\ parsed = NotParsed
  /\ \E ver \in Versions, web \in BOOLEAN, api \in BOOLEAN :
        /\ (~web => ~api)
        /\ am = NewAudioManager(ver, web, api)
  /\ tasks = <<>>
  /\ splash = NoSplash

\* AudioManager.initialize() is called
InitializeCall ==
  /\ Len(tasks) < MaxCalls
  /\ \E ctorThrows \in BOOLEAN, susp \in BOOLEAN :
        LET s == initialize(am, ctorThrows, susp)
        IN /\ am' = s.a
           /\ tasks' = Append(tasks, Proceed(Task("initialize", "call", TRUE), s))
  /\ UNCHANGED <<viewVars, parserVars, splashVars>>

\* AudioManager.playNote(noteName, duration) is called
PlayNoteCall ==
  /\ Len(tasks) < MaxCalls
  /\ \E ctorThrows \in BOOLEAN, susp \in BOOLEAN, throws \in BOOLEAN,
        known \in BOOLEAN, hasSample \in SampleChoices(am) :
        LET t == [Task("playNote", "call", ~am.isInitialized) EXCEPT !.known = known]
        IN IF ~am.isInitialized
           THEN LET s == initialize(am, ctorThrows, susp)
                IN /\ am' = s.a
                   /\ tasks' = Append(tasks, Proceed(t, s))
           ELSE LET s == playNoteTail(am, known, hasSample, throws)
                IN /\ am' = s.a
                   /\ tasks' = Append(tasks, Finish(t, s))
  /\ UNCHANGED <<viewVars, parserVars, splashVars>>

\* the promise of audioContext.resume() awaited by initialize() settles
ResumeSettles(i) ==
  /\ tasks[i].pc = "resume"
  /\ \E resumed \in BOOLEAN :
        LET s == afterResume(am, resumed)
        IN /\ am' = s.a
           /\ tasks' = [tasks EXCEPT ![i] = Proceed(@, s)]
  /\ UNCHANGED <<viewVars, parserVars, splashVars>>

\* the promise of Audio.setAudioModeAsync settles
AudioModeSettles(i) ==
  /\ tasks[i].pc = "mode"
  /\ \E ok \in BOOLEAN :
        LET s == afterAudioMode(am, ok)
        IN /\ am' = s.a
           /\ tasks' = [tasks EXCEPT ![i] = Proceed(@, s)]
  /\ UNCHANGED <<viewVars, parserVars, splashVars>>

\* the promise of loadAudioBuffer / initializeSoundObjects settles
LoadSettles(i) ==
  /\ tasks[i].pc = "load"
  /\ \E n \in LoadOutcomes :
        LET s == afterLoad(am, n)
        IN /\ am' = s.a
           /\ tasks' = [tasks EXCEPT ![i] = Proceed(@, s)]
  /\ UNCHANGED <<viewVars, parserVars, splashVars>>

\* playNote goes on after its await of initialize()
InitializeReturns(i) ==
  /\ tasks[i].pc = "returned"
  /\ \E hasSample \in SampleChoices(am), throws \in BOOLEAN :
        LET s == playNoteTail(am, tasks[i].known, hasSample, throws)
        IN /\ am' = s.a
           /\ tasks' = [tasks EXCEPT ![i] = Finish(@, s)]
  /\ UNCHANGED <<viewVars, parserVars, splashVars>>

\* the promise of audioContext.resume() awaited by playNote settles
ContextSettles(i) ==
  /\ tasks[i].pc = "context"
  /\ \E resumed \in BOOLEAN, hasSample \in SampleChoices(am), throws \in BOOLEAN :
        LET s == afterContext(am, resumed, tasks[i].known, hasSample, throws)
        IN /\ am' = s.a
           /\ tasks' = [tasks EXCEPT ![i] = Finish(@, s)]
  /\ UNCHANGED <<viewVars, parserVars, splashVars>>

\* AudioManager.stopAll() is called
StopAllCall ==
  /\ Len(tasks) < MaxCalls
  /\ \E throws \in BOOLEAN :
        LET s == stopAll(am, throws)
        IN /\ am' = s.a
           /\ tasks' = Append(tasks, Finish(Task("stopAll", "call", FALSE), s))
  /\ UNCHANGED <<viewVars, parserVars, splashVars>>

\* the promises of sound.stopAsync() awaited by stopAll settle
StopSettles(i) ==
  /\ tasks[i].pc = "stop"
  /\ \E ok \in BOOLEAN :
        LET s == afterStop(am, ok)
        IN /\ am' = s.a
           /\ tasks' = [tasks EXCEPT ![i] = Finish(@, s)]
  /\ UNCHANGED <<viewVars, parserVars, splashVars>>

AudioNext ==
  \/ InitializeCall
  \/ PlayNoteCall
  \/ StopAllCall
  \/ \E i \in 1..Len(tasks) :
        \/ ResumeSettles(i)
        \/ AudioModeSettles(i)
        \/ LoadSettles(i)
        \/ InitializeReturns(i)
        \/ ContextSettles(i)
        \/ StopSettles(i)

SpecAudio == InitAudio /\ [][AudioNext]_vars

\* ------------------------------------- AudioManager: the notes that sound
\* The same singleton with the sources it has started.  On the web a source
\* is a node of the graph, recorded under its note name in
\* activeBufferSources or activeOscillators; its ended event comes some time
\* after it has played to its end or was stopped.  On mobile there is one
\* Sound object for each note name, in the order of soundObjects.  A call
\* of playNote or stopAll is a task; initialize() is taken as the one
\* await of the playNote that called it, after which the graph or the
\* Sound objects are there (no playNote is called while it runs).

MaxSoundCalls == 3
SoundKeys == <<"C4", "D4">>
NumKeys == Len(SoundKeys)

\* sources: the sources whose ended event has not come, each with the
\* playNote that started it (by) -- sounding or stopped; sounds[k]: the
\* playNote whose playAsync the Sound object k is playing, 0 if it is silent
SoundManager(ver, web, init, susp, hasBuffers) ==
  [ ver |-> ver, isWeb |-> web, isInitialized |-> init, suspended |-> susp,
    hasBuffers |-> hasBuffers,
    activeBufferSources |-> [k \in 1..NumKeys |-> 0],
    activeOscillators |-> [k \in 1..NumKeys |-> 0],
    sources |-> {},
    sounds |-> [k \in 1..NumKeys |-> 0] ]

\* source.stop(); source.disconnect()
stopSource(a, id) ==
  [a EXCEPT !.sources = { IF x.id = id THEN [x EXCEPT !.state = "stopped"] ELSE x : x \in @ }]

\* stopNote(noteName): on the web the recorded buffer source and the
\* recorded oscillator of the name are stopped and their entries deleted
stopNote(a, k) ==
  IF ~a.isWeb THEN a
  ELSE LET a1 == IF a.activeBufferSources[k] # 0
                 THEN [stopSource(a, a.activeBufferSources[k]) EXCEPT !.activeBufferSources[k] = 0]
                 ELSE a
       IN IF a1.activeOscillators[k] # 0
          THEN [stopSource(a1, a1.activeOscillators[k]) EXCEPT !.activeOscillators[k] = 0]
          ELSE a1

\* source.start(now); this.activeBufferSources.set(noteName, source)
playNoteWithBuffer(a, i, k) ==
  [a EXCEPT !.sources = @ \cup {[id |-> i, key |-> k, kind |-> "buffer", state |-> "sounding"]},
            !.activeBufferSources[k] = i]

\* oscillator.start(now); this.activeOscillators.set(noteName, oscillator)
playNoteWithOscillator(a, i, k) ==
  [a EXCEPT !.sources = @ \cup {[id |-> i, key |-> k, kind |-> "osc", state |-> "sounding"]},
            !.activeOscillators[k] = i]

\* playNoteWeb of the playNote i: stopNote, then the sample or the oscillator
playNoteWeb(a, i, k) ==
  IF a.hasBuffers THEN playNoteWithBuffer(stopNote(a, k), i, k)
  ELSE playNoteWithOscillator(stopNote(a, k), i, k)

\* playNoteMobile of the playNote i: setPositionAsync(0), playAsync()
playNoteMobile(a, i, k) == [a EXCEPT !.sounds[k] = i]

\* source.onended / oscillator.onended of the source x
onended(a, x) ==
  IF x.kind = "buffer"
  THEN [a EXCEPT !.sources = @ \ {x}, !.activeBufferSources[x.key] = 0]
  ELSE [a EXCEPT !.sources = @ \ {x}, !.activeOscillators[x.key] = 0]

\* the web branch of stopAll: every recorded source is stopped, the maps
\* are cleared
stopAllWeb(a) ==
  LET ids == { a.activeBufferSources[k] : k \in 1..NumKeys }
               \cup { a.activeOscillators[k] : k \in 1..NumKeys }
  IN [a EXCEPT !.sources = { IF x.id \in ids THEN [x EXCEPT !.state = "stopped"] ELSE x : x \in @ },
               !.activeBufferSources = [k \in 1..NumKeys |-> 0],
               !.activeOscillators = [k \in 1..NumKeys |-> 0]]

\* sound.stopAsync() of the Sound object k
stopAsync(a, k) == [a EXCEPT !.sounds[k] = 0]

\* a call: pc is what it awaits ("init": initialize(), "context":
\* audioContext.resume(), "stop": a stopAsync(), "done": it has returned),
\* pos the Sound object stopAll is at.  History: late, the playNote
\* started its note when a stopAll called after it had returned; cut, the
\* stopAll stopped the note of a playNote called after it
SoundTask(kind, pc, k) ==
  [kind |-> kind, pc |-> pc, key |-> k, pos |-> 0, late |-> FALSE, cut |-> FALSE]

StoppedAfter(ts, i) ==
  \E j \in (i + 1)..Len(ts) : ts[j].kind = "stopAll" /\ ts[j].pc = "done"

\* playNote i after its await of initialize(), up to its next await
soundTail(a, i, k) ==
  IF a.isWeb
  THEN IF a.suspended /\ a.ver = "AudioManager.ts"
       THEN [a |-> a, pc |-> "context", started |-> FALSE]
       ELSE [a |-> playNoteWeb(a, i, k), pc |-> "done", started |-> TRUE]
  ELSE [a |-> playNoteMobile(a, i, k), pc |-> "done", started |-> TRUE]

InitSound ==
  /\ now = 0
  /\ viewer = [p \in Players |-> NoViewer]
  /\ playersRef = <<>>
  /\ currentPlayingRef = None
  /\ op = Op("init", None, 0)
  /\ calls = <<>>
  /\ session = [p \in Players |-> NoSession]
  /\ run = [p \in Players |-> NoRun]
  /\ file = NoFile /\ buf = <<>> /\ parsed = NotParsed
  /\ \E ver \in Versions, web \in BOOLEAN, init \in BOOLEAN, susp \in BOOLEAN, bf \in BOOLEAN :
        /\ (~web => ~susp /\ ~bf)
        /\ am = SoundManager(ver, web, init, susp, bf)
  /\ tasks = <<>>
  /\ splash = NoSplash

\* AudioManager.playNote(SoundKeys[k], duration) is called
SoundPlayNote(k) ==
  /\ Len(tasks) < MaxSoundCalls
  /\ LET i == Len(tasks) + 1
     IN IF ~am.isInitialized
        THEN /\ \A j \in 1..Len(tasks) : tasks[j].pc # "init"
             /\ tasks' = Append(tasks, SoundTask("playNote", "init", k))
             /\ am' = am
        ELSE LET r == soundTail(am, i, k)
             IN /\ am' = r.a
                /\ tasks' = Append(tasks, SoundTask("playNote", r.pc, k))
  /\ UNCHANGED <<viewVars, parserVars, splashVars>>

\* the initialize() awaited by playNote i has returned
SoundInitReturns(i) ==
  /\ tasks[i].pc = "init"
  /\ LET r == soundTail([am EXCEPT !.isInitialized = TRUE], i, tasks[i].key)
     IN /\ am' = r.a
        /\ tasks' = [tasks EXCEPT ![i].pc = r.pc,
                                  ![i].late = r.started /\ StoppedAfter(tasks, i)]
  /\ UNCHANGED <<viewVars, parserVars, splashVars>>

\* the audioContext.resume() awaited by playNote i has settled
SoundContextSettles(i) ==
  /\ tasks[i].pc = "context"
  /\ \E resumed \in BOOLEAN :
        am' = playNoteWeb([am EXCEPT !.suspended = @ /\ ~resumed], i, tasks[i].key)
  /\ tasks' = [tasks EXCEPT ![i].pc = "done", ![i].late = StoppedAfter(tasks, i)]
  /\ UNCHANGED <<viewVars, parserVars, splashVars>>

\* AudioManager.stopAll() is called (notifyPlaybackStart calls it and does
\* not await it): the web branch runs to its end, the mobile branch up to
\* its first await
SoundStopAll ==
  /\ Len(tasks) < MaxSoundCalls
  /\ IF am.isWeb
     THEN /\ am' = stopAllWeb(am)
          /\ tasks' = Append(tasks, SoundTask("stopAll", "done", 0))
     ELSE IF ~am.isInitialized
     THEN /\ am' = am
          /\ tasks' = Append(tasks, SoundTask("stopAll", "done", 0))
     ELSE /\ am' = stopAsync(am, 1)
          /\ tasks' = Append(tasks, [SoundTask("stopAll", "stop", 0) EXCEPT !.pos = 1])
  /\ UNCHANGED <<viewVars, parserVars, splashVars>>

\* the stopAsync() awaited by stopAll j has settled: the next Sound
\* object, or the end of the loop
SoundStopSettles(j) ==
  /\ tasks[j].kind = "stopAll" /\ tasks[j].pc = "stop"
  /\ IF tasks[j].pos < NumKeys
     THEN /\ am' = stopAsync(am, tasks[j].pos + 1)
          /\ tasks' = [tasks EXCEPT ![j].pos = @ + 1,
                                    ![j].cut = @ \/ am.sounds[tasks[j].pos + 1] > j]
     ELSE /\ am' = am
          /\ tasks' = [tasks EXCEPT ![j].pc = "done"]
  /\ UNCHANGED <<viewVars, parserVars, splashVars>>

\* the ended event of a source, played to its end or stopped
SourceEnded ==
  /\ \E x \in am.sources : am' = onended(am, x)
  /\ UNCHANGED <<viewVars, parserVars, splashVars, tasks>>

\* a Sound object has played to its end
SoundEnded(k) ==
  /\ am.sounds[k] # 0
  /\ am' = stopAsync(am, k)
  /\ UNCHANGED <<viewVars, parserVars, splashVars, tasks>>

SoundNext ==
  \/ \E k \in 1..NumKeys : SoundPlayNote(k)
  \/ SoundStopAll
  \/ SourceEnded
  \/ \E k \in 1..NumKeys : SoundEnded(k)
  \/ \E i \in 1..Len(tasks) :
        \/ SoundInitReturns(i)
        \/ SoundContextSettles(i)
        \/ SoundStopSettles(i)

SpecSound == InitSound /\ [][SoundNext]_vars

\* C33: a stopAll never stops the note of a playNote that was called after
\* that stopAll was called, on the web and on mobile.
C33_StopAllSparesLaterNotes ==
  \A j \in 1..Len(tasks) : tasks[j].kind = "stopAll" => ~tasks[j].cut

\* C35: on the web every source that sounds is recorded under its note
\* name in the map of its kind, so stopAll stops it.
C35_SoundingIsRecorded ==
  am.isWeb =>
     \A x \in am.sources :
        x.state = "sounding" =>
           (IF x.kind = "buffer" THEN am.activeBufferSources[x.key]
            ELSE am.activeOscillators[x.key]) = x.id

\* C36: no playNote starts its note after a stopAll that was called after
\* it has returned.
C36_NoStartAfterStop ==
  \A i \in 1..Len(tasks) : tasks[i].kind = "playNote" => ~tasks[i].late

\* ------------------------------------------------ claims on the AudioManager
\* C19 (as claimed): an initialize() called after an earlier initialize()
\* has returned (and with none running) returns at once, creates no
\* AudioContext and loads no sample.
C19_SecondInitializeIsNoOp ==
  \A i \in 1..Len(tasks) :
     tasks[i].after =>
        /\ tasks[i].ctx = 0 /\ tasks[i].lds = 0
        /\ tasks[i].pc \notin InitPcs

\* C20 (as claimed): an initialize() called, directly or by playNote, while
\* an earlier initialize() is running creates no AudioContext and loads no
\* sample.
C20_InFlightInitializeIsNoOp ==
  \A i \in 1..Len(tasks) :
     tasks[i].inflight =>
        /\ tasks[i].ctx = 0 /\ tasks[i].lds = 0
        /\ tasks[i].pc \notin InitPcs

\* C21 (as claimed): whenever an initialize() that was not called during
\* another one returns, by any of its paths, isInitialized is true and the
\* progress is 100.
C21_InitializeLeavesReady ==
  [][ \A i \in 1..Len(tasks') :
         ( /\ tasks'[i].ran /\ ~tasks'[i].inflight
           /\ tasks'[i].pc \notin InitPcs
           /\ (i > Len(tasks) \/ tasks[i].pc \in InitPcs) )
         => am'.isInitialized /\ am'.initProgress = 100 ]_vars

\* whether a note played now is handed to the platform when no call fails
CanSound(a) ==
  IF a.isWeb THEN a.audioContext # 0 /\ a.gainNode ELSE a.resources = NumSamples

\* C22: no call of playNote or stopAll rejects, whatever the state of the
\* backend and whichever call of the platform throws or rejects; and a
\* playNote that meets no failure, with the graph or the samples there,
\* starts its source, also after failures of earlier calls.
C22_NeverThrows ==
  [][ \A i \in 1..Len(tasks') :
         /\ tasks'[i].pc # "threw"
         /\ ( /\ tasks'[i].kind = "playNote" /\ tasks'[i].pc = "done"
              /\ (i > Len(tasks) \/ tasks[i].pc # "done")
              /\ tasks'[i].known /\ ~tasks'[i].caught /\ CanSound(am') )
            => am'.sources = am.sources + 1 /\ tasks'[i].src = 1 ]_vars

\* a playNote and a stopAll have absorbed a failure of the platform, and a
\* later playNote has started its source
C22_Witness ==
  \E i, j, k \in 1..Len(tasks) :
     /\ i < k /\ j < k
     /\ tasks[i].kind = "playNote" /\ tasks[i].caught /\ tasks[i].pc = "done"
     /\ tasks[j].kind = "stopAll" /\ tasks[j].caught /\ tasks[j].pc = "done"
     /\ tasks[k].kind = "playNote" /\ tasks[k].src = 1 /\ tasks[k].pc = "done"

\* ------------------------------------------------ SplashScreen: initializeApp
\* The screen sees AudioManager.initialize() as a promise that resolves,
\* rejects or stays pending for ever.  Timers fire when their delay has
\* passed; time goes on, unit by unit up to MaxSplashNow and from timer to
\* timer after it.

InitTimeoutMs == 60000
DoneDelayMs == 500
ErrorDelayMs == 1000
SplashUnitMs == 500

MaxSplashNow == 3
MaxEffects == 2

ProgressValues == {5, 20, 60, 90, 100}

\* setTimeout(cb, ms)
setTimeout(s, cb, ms) ==
  [s EXCEPT !.timers = @ \cup {[cb |-> cb, at |-> s.clock + ms \div SplashUnitMs]}]

\* clearTimeout(timeoutId): timeoutId is the timer of the 60 s guard
clearTimeout(s) == [s EXCEPT !.timers = {t \in @ : t.cb # "timeout"}]

\* the listener given to AudioManager.setOnInitProgress
onInitProgress(s, prog) ==
  [s EXCEPT !.progress = prog,
            !.status = IF prog < 20 THEN "engine"
                       ELSE IF prog < 90 THEN "loading" ELSE "almost"]

initializeAppNoGuard(s) == [s EXCEPT !.init = "pending"]

\* initializeApp up to its await of AudioManager.initialize()
initializeApp(s) == [setTimeout(s, "timeout", InitTimeoutMs) EXCEPT !.init = "pending"]

\* initializeApp after the await: initialize() has resolved
afterInitialize(s) ==
  setTimeout([clearTimeout(s) EXCEPT !.init = "resolved", !.status = "loaded"],
             "done", DoneDelayMs)

\* the catch of initializeApp: initialize() has rejected
catchInitialize(s) ==
  setTimeout([s EXCEPT !.init = "rejected", !.status = "error"], "error", ErrorDelayMs)

Due(s) == {t \in s.timers : t.at <= s.clock}

\* the effect of the screen runs (twice under React Strict Mode)
SplashEffect ==
  /\ splash.effects < MaxEffects
  /\ splash' = IF splash.initStarted
               THEN [splash EXCEPT !.effects = @ + 1]
               ELSE initializeApp([splash EXCEPT !.effects = @ + 1, !.initStarted = TRUE])
  /\ UNCHANGED <<viewVars, parserVars, audioVars>>

\* the AudioManager reports its progress
ProgressReport ==
  /\ splash.init = "pending"
  /\ \E prog \in ProgressValues :
        /\ prog > splash.progress
        /\ splash' = onInitProgress(splash, prog)
  /\ UNCHANGED <<viewVars, parserVars, audioVars>>

InitResolves ==
  /\ splash.init = "pending"
  /\ splash' = afterInitialize(splash)
  /\ UNCHANGED <<viewVars, parserVars, audioVars>>

InitRejects ==
  /\ splash.init = "pending"
  /\ splash' = catchInitialize(splash)
  /\ UNCHANGED <<viewVars, parserVars, audioVars>>

\* a timer whose delay has passed calls onInitComplete
TimerFires ==
  /\ \E t \in Due(splash) :
        splash' = [splash EXCEPT !.timers = @ \ {t}, !.completes = @ + 1]
  /\ UNCHANGED <<viewVars, parserVars, audioVars>>

\* the times the clock may go to: one unit on, or on to the next timer
NextTimes(s) ==
  {c \in {s.clock + 1} : s.clock < MaxSplashNow}
    \cup {t.at : t \in {u \in s.timers : \A v \in s.timers : u.at <= v.at}}

\* time passes while no timer is due
SplashAdvance ==
  /\ Due(splash) = {}
  /\ \E c \in NextTimes(splash) : splash' = [splash EXCEPT !.clock = c]
  /\ UNCHANGED <<viewVars, parserVars, audioVars>>

SplashNext ==
  \/ SplashEffect
  \/ ProgressReport
  \/ InitResolves
  \/ InitRejects
  \/ TimerFires
  \/ SplashAdvance

\* time goes on and due timers fire; nothing makes initialize() settle
SpecSplash ==
  /\ Init
  /\ [][SplashNext]_vars
  /\ WF_vars(SplashAdvance)
  /\ WF_vars(TimerFires)

\* C23: once the splash screen has started the loading, onInitComplete is
\* called in the end, also when AudioManager.initialize() never settles.
C23_InitCompleteInTheEnd == splash.initStarted ~> (splash.completes > 0)

\* onInitComplete was called by the 60 s timer while initialize() was
\* still pending
C23_Witness ==
  /\ splash.init = "pending" /\ splash.completes = 1
  /\ splash.clock = InitTimeoutMs \div SplashUnitMs

\* ------------------------------------------------------ claims on the parser
Done == parsed # NotParsed

Closers == {"off", "onZero"}

\* a whole file whose running-status events follow an event with a channel
\* status, as the Standard MIDI File format asks
ValidFile(f) ==
  /\ f \in WholeFiles
  /\ \A k \in 1..Len(f.tracks) : \A i \in 1..Len(f.tracks[k]) :
        f.tracks[k][i].e = "run" =>
           i > 1 /\ f.tracks[k][i - 1].e \in {"on", "off", "onZero", "run"}

\* a valid file in which every Note-On is closed by the next event of its
\* track and nothing else closes a note
PairedFile(f) ==
  /\ ValidFile(f)
  /\ \A k \in 1..Len(f.tracks) : \A i \in 1..Len(f.tracks[k]) :
        LET evs == f.tracks[k]
        IN /\ evs[i].e # "run"
           /\ evs[i].e = "on" => i < Len(evs) /\ evs[i + 1].e \in Closers
           /\ evs[i].e \in Closers => i > 1 /\ evs[i - 1].e = "on"

RECURSIVE TickAt(_, _)
TickAt(evs, i) == IF i = 0 THEN 0 ELSE TickAt(evs, i - 1) + evs[i].d

HasTempo(f) == \E k \in 1..Len(f.tracks) : \E i \in 1..Len(f.tracks[k]) : f.tracks[k][i].e = "tempo"

KeyName(key) == CASE key = 60 -> "C4" [] key = 61 -> "C#4" [] key = 21 -> "A0"

\* the notes of a paired file, as <<track, index of the Note-On, name,
\* startTime, duration>> with the times in microseconds
ExpectedNotes(f) ==
  LET tempo == IF HasTempo(f) THEN FileTempo ELSE 500000
      ons   == { p \in (1..Len(f.tracks)) \X (1..MaxEvents) :
                    p[2] <= Len(f.tracks[p[1]]) /\ f.tracks[p[1]][p[2]].e = "on" }
  IN { <<p[1], p[2], KeyName(f.tuning[1]),
         (TickAt(f.tracks[p[1]], p[2]) * tempo) \div f.tuning[2],
         (f.tracks[p[1]][p[2] + 1].d * tempo) \div f.tuning[2]>> : p \in ons }

TempoKinds == {"tempo", "tempo2", "tempoShort", "tempoLong"}

\* the value of the last Set Tempo of length 3 among the events evs, t if
\* there is none
RECURSIVE LastTempoIn(_, _)
LastTempoIn(evs, t) ==
  IF evs = <<>> THEN t
  ELSE LastTempoIn(Tail(evs), CASE Head(evs).e = "tempo"  -> FileTempo
                                [] Head(evs).e = "tempo2" -> FileTempo2
                                [] OTHER -> t)

\* the events of the tracks ts in file order
RECURSIVE Flatten(_)
Flatten(ts) == IF ts = <<>> THEN <<>> ELSE Head(ts) \o Flatten(Tail(ts))

\* f without its events of type 0x51 (their delta-times are 0)
Stripped(f) ==
  [f EXCEPT !.tracks = [k \in 1..Len(f.tracks) |->
                          SelectSeq(f.tracks[k], LAMBDA e : e.e \notin TempoKinds)]]

\* C28: the times of all the notes of a file, and the tempo of its score,
\* come from the value of the last Set Tempo of length 3 in file order, or
\* from 500000 if there is none; events of type 0x51 of another length
\* change nothing.  (The files have 480 ticks per beat and notes that
\* start and end on beats: a note is the note of the file without its
\* tempo events, with a beat of that value.)
C28_LastTempoWins ==
  (Done /\ file \in TempoFiles) =>
     LET T    == LastTempoIn(Flatten(file.tracks), 500000)
         base == parseMidiBuffer(WholeBytes(Stripped(file)))
     IN /\ parsed.ok /\ base.ok
        /\ parsed.score.tempo = (2 * 60000000 + T) \div (2 * T)
        /\ Len(parsed.score.notes) = Len(base.score.notes)
        /\ \A i \in 1..Len(parsed.score.notes) :
              /\ parsed.score.notes[i].note = base.score.notes[i].note
              /\ parsed.score.notes[i].startTime = (base.score.notes[i].startTime \div 500000) * T
              /\ parsed.score.notes[i].duration = (base.score.notes[i].duration \div 500000) * T

\* the velocity byte of a Note-On event of the files
OnVelocity(e) == CASE e = "on" -> 100 [] e = "onSoft" -> 50

\* the events evs of one track read from the state w: the tick, the
\* Note-On that is pending (a sequence of at most one, the files use one
\* key) and the notes emitted, as the format pairs them
RECURSIVE Walk(_, _)
Walk(evs, w) ==
  IF evs = <<>> THEN w
  ELSE LET e    == Head(evs)
           tick == w.tick + e.d
       IN Walk(Tail(evs),
               IF e.e \in {"on", "onSoft"}
               THEN [w EXCEPT !.tick = tick,
                              !.pending = << [startTick |-> tick, velocity |-> OnVelocity(e.e)] >>]
               ELSE IF e.e \in Closers /\ w.pending # <<>>
               THEN [tick |-> tick, pending |-> <<>>,
                     notes |-> Append(w.notes, [startTick |-> w.pending[1].startTick,
                                                endTick |-> tick,
                                                velocity |-> w.pending[1].velocity])]
               ELSE [w EXCEPT !.tick = tick])

TrackStart == [tick |-> 0, pending |-> <<>>, notes |-> <<>>]

\* the notes of the tracks ts, each track read with nothing pending
RECURSIVE NotesOfTracks(_)
NotesOfTracks(ts) ==
  IF ts = <<>> THEN <<>> ELSE Walk(Head(ts), TrackStart).notes \o NotesOfTracks(Tail(ts))

\* a paired note as the parser returns it, at 120 BPM and 480 ticks per
\* beat
AsNote(n, name) ==
  [note |-> name, startTime |-> (n.startTick * 500000) \div 480,
   duration |-> ((n.endTick * 500000) \div 480) - ((n.startTick * 500000) \div 480),
   velocity |-> n.velocity]

Times(ns, x) == Cardinality({ i \in 1..Len(ns) : ns[i] = x })

\* the same notes, each as many times, in any order
SameNotes(a, b) ==
  /\ Len(a) = Len(b)
  /\ \A i \in 1..Len(a) : Times(a, a[i]) = Times(b, a[i])

\* no track of f but the last leaves a Note-On open
NothingLeftOpen(f) ==
  \A k \in 1..(Len(f.tracks) - 1) : Walk(f.tracks[k], TrackStart).pending = <<>>

\* C29: in a track that starts with nothing pending, a Note-Off or a
\* Note-On of velocity 0 gives exactly one note when a Note-On of velocity
\* > 0 is pending, with the start tick and the velocity of the most recent
\* one and the tick of the closing event as its end, and nothing is pending
\* after it; a closing event with nothing pending gives no note.  The
\* notes of the score are those notes and no other.
C29_ClosersPairWithLastOpen ==
  (Done /\ file \in PairFiles /\ NothingLeftOpen(file)) =>
     LET exp == NotesOfTracks(file.tracks)
     IN /\ parsed.ok
        /\ SameNotes(parsed.score.notes,
                     [i \in 1..Len(exp) |-> AsNote(exp[i], KeyName(file.tuning[1]))])

\* a Note-On, a second Note-On of another velocity a beat later and a
\* Note-Off a beat after that: one note, from the second Note-On
C29_Witness ==
  /\ Done /\ parsed.ok
  /\ file.tracks = << <<Ev("on", 0), Ev("onSoft", 480), Ev("off", 480)>> >>
  /\ parsed.score.notes = << [note |-> "C4", startTime |-> 500000, duration |-> 500000,
                              velocity |-> 50] >>

\* f with its track k alone
OnlyTrack(f, k) == [f EXCEPT !.tracks = << f.tracks[k] >>]

\* C30: pending notes are per track: the notes of a file of two tracks are
\* the notes of its first track alone and the notes of its second track
\* alone, so no note starts in one track and ends in the other.
C30_PendingIsPerTrack ==
  (Done /\ file \in PairFiles /\ Len(file.tracks) = 2) =>
     LET one == parseMidiBuffer(WholeBytes(OnlyTrack(file, 1)))
         two == parseMidiBuffer(WholeBytes(OnlyTrack(file, 2)))
     IN /\ parsed.ok /\ one.ok /\ two.ok
        /\ SameNotes(parsed.score.notes, one.score.notes \o two.score.notes)

\* C32: a file in which the magic of a track chunk is not "MTrk" does not
\* parse: parseMidiBuffer throws, it returns no score made of the tracks
\* before that chunk.
C32_BadTrackMagicFails ==
  (Done /\ file \in BadTrackFiles) => ~parsed.ok

\* C39: parseMidiBuffer ends on every buffer, with a score or with an
\* error, and every iteration of the event loop moves the read offset
\* forward by at least one byte or throws.
C39_ParseTerminates ==
  /\ <>ParserReturned
  /\ [][EventIteration => (parsed'.s.err # "" \/ parsed'.s.offset > parsed.s.offset)]_vars

\* parseMidiBuffer has returned a score for a chunk of four bytes that all
\* have the continuation bit: the delta-time stopped after the fourth
C39_Witness ==
  /\ ParserReturned /\ parsed.ok
  /\ buf = RawBuffer(1, 4, <<128, 128, 128, 128>>)

\* C38: in every state of the coordinator the current player is none or
\* a player that is in the registry.
C38_CurrentIsRegistered ==
  currentPlayingRef = None \/ InRegistry(playersRef, currentPlayingRef)

\* C37: when a run of play that began at currentTime 0, at one speed, with
\* frames less than 0.15 s of transport time apart, has reached the end of
\* the score, every note of the score has been handed to playNote exactly
\* once in that run.
C37_NoNoteSkipped ==
  (run[Engine].clean /\ run[Engine].ended) =>
     /\ run[Engine].once = 1..Len(viewer[Engine].notes)
     /\ run[Engine].again = {}

\* a run of the score of three notes at speed 1 has ended, 0.15 s after
\* it began, and each of the notes was handed to playNote in it
C37_Witness ==
  /\ run[Engine].clean /\ run[Engine].ended
  /\ Len(viewer[Engine].notes) = 3
  /\ run[Engine].once = {1, 2, 3}
  /\ viewer[Engine].speed = 1
  /\ now = 3

\* C34: at most one frame callback of the engine is pending at any time,
\* whatever the play/pause presses, the autoPlay effects and the frames,
\* and whether or not the component was rendered again between them.
C34_OneFramePending ==
  Cardinality(viewer[Engine].frames) <= 1

RunKinds == {"run", "runOn"}

\* every event under running status comes after an event of its track
\* that has a status byte
RunsHaveStatus(f) ==
  \A k \in 1..Len(f.tracks) : \A i \in 1..Len(f.tracks[k]) :
     f.tracks[k][i].e \in RunKinds => \E j \in 1..(i - 1) : f.tracks[k][j].e \notin RunKinds

\* the bytes of the events evs with the status byte written out before
\* the data bytes of every event under running status: last is the status
\* byte of the most recent event that has one
RECURSIVE WrittenOut(_, _, _)
WrittenOut(evs, key, last) ==
  IF evs = <<>> THEN <<>>
  ELSE LET e  == Head(evs)
           bs == EventBytes(e, key)
           n  == Len(VarLen(e.d))
       IN IF e.e \in RunKinds
          THEN SubSeq(bs, 1, n) \o <<last>> \o SubSeq(bs, n + 1, Len(bs))
                 \o WrittenOut(Tail(evs), key, last)
          ELSE bs \o WrittenOut(Tail(evs), key, bs[n + 1])

RECURSIVE WrittenOutTracks(_, _)
WrittenOutTracks(ts, key) ==
  IF ts = <<>> THEN <<>>
  ELSE LET body == WrittenOut(Head(ts), key, 0) \o <<0, MetaStatus, 47, 0>>
       IN MTrk \o <<0, 0, Len(body) \div 256, Len(body) % 256>> \o body
            \o WrittenOutTracks(Tail(ts), key)

\* the file f with no running status
WrittenOutBytes(f) ==
  f.magic \o <<0, 0, 0, 6, 0, 1, 0, Len(f.tracks), f.tuning[2] \div 256, f.tuning[2] % 256>>
    \o WrittenOutTracks(f.tracks, f.tuning[1])

\* C31: an event whose first byte after the delta-time is < 0x80 is decoded
\* with the status byte of the most recent event of its track that has
\* one, and that byte is its first data byte: the file parses as the file
\* in which the status byte is written out before those data bytes.
C31_RunningStatus ==
  (Done /\ file \in RunFiles /\ RunsHaveStatus(file)) =>
     parsed = parseMidiBuffer(WrittenOutBytes(file))

\* a Note-On, its key closed a beat later by two data bytes of velocity 0
\* under running status, opened again by two data bytes of velocity 100:
\* one note of one beat
C31_Witness ==
  /\ Done /\ parsed.ok
  /\ file.tracks = << <<Ev("on", 0), Ev("run", 480), Ev("runOn", 0)>> >>
  /\ parsed.score.notes = << [note |-> "C4", startTime |-> 0, duration |-> 500000,
                              velocity |-> 100] >>

\* a note of one beat in the first track and, in the second track, a Set
\* Tempo and then a 0x51 of length 2: the note lasts one beat of the Set
\* Tempo that comes after it in the file
C28_Witness ==
  /\ Done /\ parsed.ok
  /\ file.tracks = << <<Ev("on", 0), Ev("off", 480)>>, <<Ev("tempo2", 0), Ev("tempoShort", 0)>> >>
  /\ Len(parsed.score.notes) = 1
  /\ parsed.score.notes[1].duration = FileTempo2
  /\ parsed.score.tempo = 600

\* C13: a buffer whose first four bytes are not "MThd" makes parseMidiBuffer
\* throw: no score is returned.
C13_BadMagicFails ==
  (Done /\ (Len(buf) < 4 \/ SubSeq(buf, 1, 4) # MThd)) => ~parsed.ok

\* a file of one track that is whole but for its magic "XXXX" was rejected
C13_Witness ==
  /\ Done /\ file.magic = BadMagic /\ Len(file.tracks[1]) = 1
  /\ Len(buf) > HeaderSize
  /\ ~parsed.ok /\ parsed.error = NotMidi

\* C14: the notes of the score parsed from a valid file are in
\* non-decreasing order of startTime.
C14_NotesSorted ==
  (Done /\ ValidFile(file)) =>
     /\ parsed.ok
     /\ \A i \in 1..Len(parsed.score.notes) : \A j \in i..Len(parsed.score.notes) :
           parsed.score.notes[i].startTime <= parsed.score.notes[j].startTime

\* two tracks, the note of the first one starting a beat after the note of
\* the second one: the later note was closed first and comes second
C14_Witness ==
  /\ Done /\ parsed.ok
  /\ file.tracks = << <<Ev("on", 480), Ev("off", 480)>>, <<Ev("on", 0), Ev("off", 480)>> >>
  /\ Len(parsed.score.notes) = 2
  /\ parsed.score.notes[1].startTime = 0
  /\ parsed.score.notes[2].startTime = 500000

\* C15 (as claimed): every note of the score parsed from a valid file has a
\* duration > 0.
C15_DurationsPositive ==
  (Done /\ ValidFile(file)) =>
     /\ parsed.ok
     /\ \A i \in 1..Len(parsed.score.notes) : parsed.score.notes[i].duration > 0

\* the events of the first track that lie wholly before the cut
CompleteEvents(f) ==
  LET evs == f.tracks[1]
      fit == { k \in 0..Len(evs) :
                 HeaderSize + 8 + Len(EventsBytes(SubSeq(evs, 1, k), f.tuning[1])) <= f.cut }
  IN SubSeq(evs, 1, CHOOSE k \in fit : \A j \in fit : j <= k)

\* C16 (as claimed): a valid file cut inside a track (after the track's
\* 8-byte header) is parsed without an error, and the score has the notes
\* of the events that lie wholly before the cut.
C16_CutFileParses ==
  (/\ Done /\ file.cut # Uncut /\ file.cut >= HeaderSize + 8
   /\ ValidFile([file EXCEPT !.cut = Uncut])) =>
     /\ parsed.ok
     /\ parsed.score.notes =
          parseMidiBuffer(WholeBytes(File(file.tuning, <<CompleteEvents(file)>>, MThd, Uncut))).score.notes

\* what the score of a paired file has to be: a note for every Note-On, at
\* startTick * tempo / ticksPerBeat, for (endTick - startTick) * tempo /
\* ticksPerBeat, under the name of its key
NotesAsExpected ==
  (Done /\ PairedFile(file)) =>
     /\ parsed.ok
     /\ Len(parsed.score.notes) = Cardinality(ExpectedNotes(file))
     /\ \A x \in ExpectedNotes(file) : \E i \in 1..Len(parsed.score.notes) :
           /\ parsed.score.notes[i].note = x[3]
           /\ parsed.score.notes[i].startTime = x[4]
           /\ parsed.score.notes[i].duration = x[5]

\* the file of the instance: two tracks, 480 ticks per beat, no Set Tempo
\* (500000 microseconds per beat), Note-On 60 at tick 0, Note-Off at tick 480
InstanceFile == File(<<60, 480>>, << <<Ev("on", 0), Ev("off", 480)>>, <<>> >>, MThd, Uncut)

\* C17 (as claimed): the notes are as expected, and the file of the
\* instance gives the note C4 at 0 with a duration of 1 second.
C17_TicksToSeconds ==
  /\ NotesAsExpected
  /\ (Done /\ file = InstanceFile) =>
        /\ parsed.ok /\ Len(parsed.score.notes) = 1
        /\ parsed.score.notes[1].note = "C4"
        /\ parsed.score.notes[1].startTime = 0
        /\ parsed.score.notes[1].duration = 1000000

\* C17 (amended): the notes are as expected, and the file of the instance
\* gives the note C4 at 0 with a duration of 0.5 second.
C17_TicksToSecondsHalf ==
  /\ NotesAsExpected
  /\ (Done /\ file = InstanceFile) =>
        /\ parsed.ok /\ Len(parsed.score.notes) = 1
        /\ parsed.score.notes[1].note = "C4"
        /\ parsed.score.notes[1].startTime = 0
        /\ parsed.score.notes[1].duration = 500000

\* the file of the instance has been parsed
C17_Witness ==
  /\ Done /\ file = InstanceFile /\ parsed.ok
  /\ Len(parsed.score.notes) = 1 /\ parsed.score.notes[1].note = "C4"

====
